---- MODULE Spec2Model ----
(***************************************************************************)
(* Structured curvature matrices (asdfghjkl/symmatrix.py), their Fisher    *)
(* accumulation (asdfghjkl/fisher.py) and the K-BFGS gradient maker        *)
(* (asdfghjkl/precondition/kbfgs.py).                                      *)
(*                                                                         *)
(* Tensors are modelled as a shape and a row-major list of exact rationals *)
(* (floating point without rounding; a non-finite value is one token).     *)
(* Python objects live in a heap so that identity, aliasing and in-place   *)
(* mutation are visible: a reference is an index into the heap, 0 is None. *)
(***************************************************************************)
EXTENDS Integers, Sequences, FiniteSets, TLC

VARIABLES
    heap,       \* the objects: tensors, Kron, Diag, UnitWise, SymMatrix
    pc,         \* position of the running scenario
    nops,       \* number of SymMatrix operations executed so far
    reg,        \* SymMatrix harness: the variables X, Y and R (result of X + Y)
    last,       \* the last operation: its name, operands, result, error, heap before
    layers,     \* per eligible module: bias flag, gradients, bfgs, stored means
    step,       \* state['step'] of the gradient maker
    sched,      \* the external update schedule: step -> do_update_preconditioner
    margs,      \* _model_args/_model_kwargs, _last_*, _curr_* of the gradient maker
    A_inv_exists, \* KronBfgsGradientMaker._A_inv_exists
    config,     \* KronBfgsGradientConfig and what the statistics context provides
    caller,     \* the call (inputs) the caller supplied for the current step
    log         \* history: the phases run so far, with the inputs their forward used

vars == <<heap, pc, nops, reg, last, layers, step, sched, margs, A_inv_exists,
          config, caller, log>>

(***************************************************************************)
(* Exact rational arithmetic: <<n, d>> with d > 0 in lowest terms.         *)
(* <<0, 0>> is the non-finite value (inf or nan), absorbing.               *)
(***************************************************************************)
Abs(x) == IF x < 0 THEN -x ELSE x

RECURSIVE Gcd(_, _)
Gcd(a, b) == IF b = 0 THEN a ELSE Gcd(b, a % b)

NaN == <<0, 0>>

IsNaN(x) == x[2] = 0

\* n/d with the common divisor g taken out and the sign in the numerator
Reduced(n, d, g) == IF d < 0 THEN <<(-n) \div g, (-d) \div g>> ELSE <<n \div g, d \div g>>

Rat(n, d) == IF d = 0 THEN NaN ELSE Reduced(n, d, Gcd(Abs(n), Abs(d)))

I(n) == <<n, 1>>

\* x + y over the common denominator x[2] * y[2] / g, g dividing both
AddOver(x, y, g) == Rat(x[1] * (y[2] \div g) + y[1] * (x[2] \div g), (x[2] \div g) * y[2])

RAdd(x, y) ==
    IF IsNaN(x) \/ IsNaN(y) THEN NaN
    ELSE AddOver(x, y, Gcd(x[2], y[2]))

RNeg(x) == IF IsNaN(x) THEN NaN ELSE <<-x[1], x[2]>>

RSub(x, y) == RAdd(x, RNeg(y))

\* x * y with g and f cancelled across the two fractions first
MulOver(x, y, g, f) == Rat((x[1] \div g) * (y[1] \div f), (x[2] \div f) * (y[2] \div g))

RMul(x, y) ==
    IF IsNaN(x) \/ IsNaN(y) THEN NaN
    ELSE MulOver(x, y, Gcd(Abs(x[1]), y[2]), Gcd(Abs(y[1]), x[2]))

RDiv(x, y) ==
    IF IsNaN(x) \/ IsNaN(y) \/ y[1] = 0 THEN NaN
    ELSE RMul(x, IF y[1] < 0 THEN <<-y[2], -y[1]>> ELSE <<y[2], y[1]>>)

LessOver(x, y, g) == x[1] * (y[2] \div g) < y[1] * (x[2] \div g)

RLt(x, y) ==
    /\ ~IsNaN(x)
    /\ ~IsNaN(y)
    /\ LessOver(x, y, Gcd(x[2], y[2]))

\* Python's max(a, b): b if b > a else a
RMax(a, b) == IF RLt(a, b) THEN b ELSE a

RECURSIVE RSum(_)
RSum(s) == IF s = <<>> THEN I(0) ELSE RAdd(Head(s), RSum(Tail(s)))

\* the exact square root of a rational that is a perfect square, non-finite otherwise
ISqrt(n) == IF \E r \in 0..n : r * r = n THEN CHOOSE r \in 0..n : r * r = n ELSE -1

RSqrt(x) ==
    IF IsNaN(x) \/ x[1] < 0 \/ ISqrt(x[1]) < 0 \/ ISqrt(x[2]) < 0 THEN NaN
    ELSE <<ISqrt(x[1]), ISqrt(x[2])>>

(***************************************************************************)
(* Tensors: [shape, data], data in row-major order as torch stores it.     *)
(***************************************************************************)
RECURSIVE Prod(_)
Prod(s) == IF s = <<>> THEN 1 ELSE Head(s) * Prod(Tail(s))

Tensor(shape, data) == [shape |-> shape, data |-> data]

Numel(t) == Len(t.data)

\* t[i, j] of a 2-D tensor
At(t, i, j) == t.data[(i - 1) * t.shape[2] + j]

\* a 2-D tensor from its entries e(i, j)
Mat2(m, n, e(_, _)) ==
    Tensor(<<m, n>>, [k \in 1..(m * n) |-> e(((k - 1) \div n) + 1, ((k - 1) % n) + 1)])

Eye(n) == Mat2(n, n, LAMBDA i, j : IF i = j THEN I(1) ELSE I(0))

\* torch.add / Tensor.add_: element-wise sum of equally shaped tensors
TAdd(a, b) == Tensor(a.shape, [k \in 1..Numel(a) |-> RAdd(a.data[k], b.data[k])])

TSub(a, b) == Tensor(a.shape, [k \in 1..Numel(a) |-> RSub(a.data[k], b.data[k])])

\* Tensor.mul_(value)
TScale(a, c) == Tensor(a.shape, [k \in 1..Numel(a) |-> RMul(a.data[k], c)])

\* Tensor.view(rows, -1)
View2d(t, rows) == Tensor(<<rows, Numel(t) \div rows>>, t.data)

\* Tensor.view_as(u)
ViewAs(t, u) == Tensor(u.shape, t.data)

Flatten(t) == Tensor(<<Numel(t)>>, t.data)

Transpose(t) == Mat2(t.shape[2], t.shape[1], LAMBDA i, j : At(t, j, i))

\* torch.mm
Mm(a, b) ==
    Mat2(a.shape[1], b.shape[2],
         LAMBDA i, j : RSum([k \in 1..a.shape[2] |-> RMul(At(a, i, k), At(b, k, j))]))

\* torch.mv
Mv(a, v) ==
    Tensor(<<a.shape[1]>>,
           [i \in 1..a.shape[1] |-> RSum([k \in 1..a.shape[2] |-> RMul(At(a, i, k), v.data[k])])])

Dot(u, v) == RSum([k \in 1..Numel(u) |-> RMul(u.data[k], v.data[k])])

Outer(u, v) == Mat2(Numel(u), Numel(v), LAMBDA i, j : RMul(u.data[i], v.data[j]))

\* torch.cat([m, v.unsqueeze(dim=1)], dim=1): v appended as the last column of m
CatCol(m, v) ==
    Mat2(m.shape[1], m.shape[2] + 1,
         LAMBDA i, j : IF j <= m.shape[2] THEN At(m, i, j) ELSE v.data[i])

\* m[:, :-1]
DropLastCol(m) == Mat2(m.shape[1], m.shape[2] - 1, LAMBDA i, j : At(m, i, j))

\* m[:, -1]
LastCol(m) == Tensor(<<m.shape[1]>>, [i \in 1..m.shape[1] |-> At(m, i, m.shape[2])])

IsSymmetric(t) ==
    /\ Len(t.shape) = 2
    /\ t.shape[1] = t.shape[2]
    /\ \A i, j \in 1..t.shape[1] : At(t, i, j) = At(t, j, i)

Trace(t) == RSum([i \in 1..t.shape[1] |-> At(t, i, i)])

(***************************************************************************)
(* The numeric kernels of asdfghjkl/utils.py, which symmatrix.py and       *)
(* kbfgs.py import: add_value_to_diagonal and cholesky_inv.                *)
(***************************************************************************)
\* addDiagonal(M, c): M with c added to every diagonal entry
add_value_to_diagonal(M, c) ==
    Mat2(M.shape[1], M.shape[2], LAMBDA i, j : IF i = j THEN RAdd(At(M, i, j), c) ELSE At(M, i, j))

AugRows(M) ==
    LET n == M.shape[1]
    IN  [i \in 1..n |-> [j \in 1..(2 * n) |->
            IF j <= n THEN At(M, i, j) ELSE IF j - n = i THEN I(1) ELSE I(0)]]

\* Gauss-Jordan elimination of [M | I] from column k on. With pd, the pivots
\* are those of the Cholesky (LDL^T) factorization and each must be positive;
\* without, rows are exchanged to find a non-zero pivot. <<>> on failure.
RECURSIVE GaussJordan(_, _, _, _)
GaussJordan(rows, k, n, pd) ==
    IF k > n THEN rows
    ELSE LET cand == {r \in k..n : ~IsNaN(rows[r][k]) /\ rows[r][k][1] # 0}
             ok   == IF pd THEN RLt(I(0), rows[k][k]) ELSE cand # {}
         IN  IF ~ok THEN <<>>
             ELSE LET r   == IF pd THEN k ELSE CHOOSE q \in cand : \A q2 \in cand : q <= q2
                      sw  == [i \in 1..n |-> IF i = k THEN rows[r] ELSE IF i = r THEN rows[k] ELSE rows[i]]
                      rk  == [j \in 1..(2 * n) |-> RDiv(sw[k][j], sw[k][k])]
                      new == [i \in 1..n |->
                                IF i = k THEN rk
                                ELSE [j \in 1..(2 * n) |-> RSub(sw[i][j], RMul(sw[i][k], rk[j]))]]
                  IN  GaussJordan(new, k + 1, n, pd)

\* what a failed factorization yields in place of a tensor
Failure == Tensor(<<>>, <<>>)

IsFailure(t) == t.shape = <<>>

\* the inverse of M as a tensor, or Failure when the factorization fails
InverseOrFail(M, pd) ==
    LET n == M.shape[1]
        g == GaussJordan(AugRows(M), 1, n, pd)
    IN  IF g = <<>> THEN Failure ELSE Mat2(n, n, LAMBDA i, j : g[i][n + j])

\* choleskyInverse(M): the inverse of a symmetric positive-definite matrix;
\* Failure stands for the NumericalError of a failed factorization
cholesky_inv(M) == InverseOrFail(M, TRUE)

\* torch.inverse of each k x k block of a (f, k, k) tensor; Failure if one is singular
BatchedInverse(t) ==
    LET f == t.shape[1]
        k == t.shape[2]
        blk(b) == Tensor(<<k, k>>, SubSeq(t.data, (b - 1) * k * k + 1, b * k * k))
        inv == [b \in 1..f |-> InverseOrFail(blk(b), FALSE)]
    IN  IF \E b \in 1..f : IsFailure(inv[b]) THEN Failure
        ELSE Tensor(t.shape, [q \in 1..Numel(t) |-> inv[((q - 1) \div (k * k)) + 1].data[((q - 1) % (k * k)) + 1]])

(***************************************************************************)
(* The heap. heap.T: tensors (their storage); heap.K: Kron objects;        *)
(* heap.D: Diag; heap.U: UnitWise; heap.S: SymMatrix. A reference is the   *)
(* object's index in its list, 0 is None. Objects are never freed.         *)
(***************************************************************************)
None == 0

EmptyHeap == [T |-> <<>>, K |-> <<>>, D |-> <<>>, U |-> <<>>, S |-> <<>>]

\* allocation: the new object's reference is NextX(h) taken before the call
NextT(h) == Len(h.T) + 1
NextK(h) == Len(h.K) + 1
NextD(h) == Len(h.D) + 1
NextU(h) == Len(h.U) + 1
NextS(h) == Len(h.S) + 1

AllocT(h, t) == [h EXCEPT !.T = Append(@, t)]
AllocK(h, k) == [h EXCEPT !.K = Append(@, k)]
AllocD(h, d) == [h EXCEPT !.D = Append(@, d)]
AllocU(h, u) == [h EXCEPT !.U = Append(@, u)]
AllocS(h, x) == [h EXCEPT !.S = Append(@, x)]

\* a method's outcome: the heap after it, what it returned, and the exception
\* it raised ("" when it returned normally)
Out(h, r, err) == [h |-> h, r |-> r, err |-> err]

(***************************************************************************)
(* class Kron                                                              *)
(***************************************************************************)
KronInit(A, B) ==
    [A |-> A, B |-> B, A_inv |-> None, B_inv |-> None, A_dim |-> None, B_dim |-> None]

KronHasData(h, k) == h.K[k].A # None /\ h.K[k].B # None

\* Kron.__add__(self = k, other = o): the heap and the returned Kron
KronAdd(h, k, o) ==
    IF ~KronHasData(h, o) THEN Out(h, k, "")
    ELSE IF KronHasData(h, k)
         THEN LET h1 == AllocT(h, TAdd(h.T[h.K[k].A], h.T[h.K[o].A]))
                  h2 == AllocT(h1, TAdd(h.T[h.K[k].B], h.T[h.K[o].B]))
              IN  Out(AllocK(h2, KronInit(NextT(h), NextT(h1))), NextK(h), "")
         ELSE Out(AllocK(h, KronInit(h.K[o].A, h.K[o].B)), NextK(h), "")

\* a Kron.__iadd__ that binds the factors to new tensors (add for add_)
KronIAdd_Rebinding(h, k, o) ==
    IF ~KronHasData(h, o) THEN h
    ELSE IF KronHasData(h, k)
         THEN LET h1 == AllocT(h, TAdd(h.T[h.K[k].A], h.T[h.K[o].A]))
                  h2 == AllocT(h1, TAdd(h.T[h.K[k].B], h.T[h.K[o].B]))
              IN  [h2 EXCEPT !.K[k].A = NextT(h), !.K[k].B = NextT(h1)]
         ELSE [h EXCEPT !.K[k].A = h.K[o].A, !.K[k].B = h.K[o].B]

\* a Kron.__iadd__ that drops the cached inverses of the factors it adds to
KronIAdd_Invalidating(h, k, o) ==
    IF ~KronHasData(h, o) THEN h
    ELSE IF KronHasData(h, k)
         THEN LET h1 == [h EXCEPT !.T[h.K[k].A] = TAdd(@, h.T[h.K[o].A])]
                  h2 == [h1 EXCEPT !.T[h1.K[k].B] = TAdd(@, h1.T[h1.K[o].B])]
              IN  [h2 EXCEPT !.K[k].A_inv = None, !.K[k].B_inv = None]
         ELSE [h EXCEPT !.K[k].A = h.K[o].A, !.K[k].B = h.K[o].B]

\* Kron.__iadd__(self = k, other = o): the heap after it (it returns self)
KronIAdd(h, k, o) ==
    IF ~KronHasData(h, o) THEN h
    ELSE IF KronHasData(h, k)
         THEN LET h1 == [h EXCEPT !.T[h.K[k].A] = TAdd(@, h.T[h.K[o].A])]
              IN  [h1 EXCEPT !.T[h1.K[k].B] = TAdd(@, h1.T[h1.K[o].B])]
         ELSE [h EXCEPT !.K[k].A = h.K[o].A, !.K[k].B = h.K[o].B]

\* Kron.mul_(value): None.mul_ raises AttributeError, after A was scaled if
\* it is B that is missing
KronMul(h, k, c) ==
    IF h.K[k].A = None THEN Out(h, k, "AttributeError")
    ELSE LET h1 == [h EXCEPT !.T[h.K[k].A] = TScale(@, c)]
         IN  IF h.K[k].B = None THEN Out(h1, k, "AttributeError")
             ELSE Out([h1 EXCEPT !.T[h.K[k].B] = TScale(@, c)], k, "")

(***************************************************************************)
(* class Diag                                                              *)
(***************************************************************************)
DiagInit(weight, bias) ==
    [weight |-> weight, bias |-> bias, weight_inv |-> None, bias_inv |-> None]

\* a Diag.__add__ that keeps its own bias where both operands hold one
DiagAdd_OwnBias(h, d, o) ==
    LET both_w == h.D[o].weight # None /\ h.D[d].weight # None
        h1 == IF both_w THEN AllocT(h, TAdd(h.T[h.D[d].weight], h.T[h.D[o].weight])) ELSE h
        weight == IF h.D[o].weight # None
                  THEN (IF h.D[d].weight # None THEN NextT(h) ELSE h.D[o].weight)
                  ELSE h.D[d].weight
        bias == IF h.D[d].bias # None THEN h.D[d].bias ELSE h.D[o].bias
    IN  Out(AllocD(h1, DiagInit(weight, bias)), NextD(h), "")

\* Diag.__add__(self = d, other = o)
DiagAdd(h, d, o) ==
    LET both_w == h.D[o].weight # None /\ h.D[d].weight # None
        both_b == h.D[o].bias # None /\ h.D[d].bias # None
        h1 == IF both_w THEN AllocT(h, TAdd(h.T[h.D[d].weight], h.T[h.D[o].weight])) ELSE h
        weight == IF h.D[o].weight # None
                  THEN (IF h.D[d].weight # None THEN NextT(h) ELSE h.D[o].weight)
                  ELSE h.D[d].weight
        h2 == IF both_b THEN AllocT(h1, TAdd(h.T[h.D[d].bias], h.T[h.D[o].bias])) ELSE h1
        bias == IF h.D[o].bias # None
                THEN (IF h.D[d].bias # None THEN NextT(h1) ELSE h.D[o].bias)
                ELSE h.D[d].bias
    IN  Out(AllocD(h2, DiagInit(weight, bias)), NextD(h), "")

\* a Diag.__iadd__ that adds where it holds values and takes nothing otherwise
DiagIAdd_SkipsMissing(h, d, o) ==
    LET h1 == IF h.D[o].weight # None /\ h.D[d].weight # None
              THEN [h EXCEPT !.T[h.D[d].weight] = TAdd(@, h.T[h.D[o].weight])]
              ELSE h
    IN  IF h1.D[o].bias # None /\ h1.D[d].bias # None
        THEN [h1 EXCEPT !.T[h1.D[d].bias] = TAdd(@, h1.T[h1.D[o].bias])]
        ELSE h1

\* Diag.__iadd__(self = d, other = o)
DiagIAdd(h, d, o) ==
    LET h1 == IF h.D[o].weight # None
              THEN (IF h.D[d].weight # None
                    THEN [h EXCEPT !.T[h.D[d].weight] = TAdd(@, h.T[h.D[o].weight])]
                    ELSE [h EXCEPT !.D[d].weight = h.D[o].weight])
              ELSE h
    IN  IF h1.D[o].bias # None
        THEN (IF h1.D[d].bias # None
              THEN [h1 EXCEPT !.T[h1.D[d].bias] = TAdd(@, h1.T[h1.D[o].bias])]
              ELSE [h1 EXCEPT !.D[d].bias = h1.D[o].bias])
        ELSE h1

\* Diag.mul_(value)
DiagMul(h, d, c) ==
    LET h1 == IF h.D[d].weight # None THEN [h EXCEPT !.T[h.D[d].weight] = TScale(@, c)] ELSE h
    IN  IF h1.D[d].bias # None THEN [h1 EXCEPT !.T[h1.D[d].bias] = TScale(@, c)] ELSE h1

(***************************************************************************)
(* class UnitWise                                                          *)
(***************************************************************************)
UnitInit(data) == [data |-> data, inv |-> None]

UnitHasData(h, u) == h.U[u].data # None

\* UnitWise.__add__(self = u, other = o)
UnitAdd(h, u, o) ==
    IF ~UnitHasData(h, o) THEN Out(h, u, "")
    ELSE IF UnitHasData(h, u)
         THEN LET h1 == AllocT(h, TAdd(h.T[h.U[u].data], h.T[h.U[o].data]))
              IN  Out(AllocU(h1, UnitInit(NextT(h))), NextU(h), "")
         ELSE Out(AllocU(h, UnitInit(h.U[o].data)), NextU(h), "")

\* UnitWise.__iadd__(self = u, other = o)
UnitIAdd(h, u, o) ==
    IF ~UnitHasData(h, o) THEN h
    ELSE IF UnitHasData(h, u)
         THEN [h EXCEPT !.T[h.U[u].data] = TAdd(@, h.T[h.U[o].data])]
         ELSE [h EXCEPT !.U[u].data = h.U[o].data]

\* UnitWise.mul_(value)
UnitMul(h, u, c) ==
    IF UnitHasData(h, u) THEN [h EXCEPT !.T[h.U[u].data] = TScale(@, c)] ELSE h

\* Kron.update_inv(damping, eps): A_inv is assigned before B's factorization runs
Eps == <<1, 10000000>>

KronSetInvs(h, k, Ai, Bi) ==
    IF IsFailure(Ai) THEN Out(h, None, "NumericalError")
    ELSE IF IsFailure(Bi)
         THEN Out([AllocT(h, Ai) EXCEPT !.K[k].A_inv = NextT(h)], None, "NumericalError")
         ELSE Out([AllocT(AllocT(h, Ai), Bi) EXCEPT !.K[k].A_inv = NextT(h),
                                                     !.K[k].B_inv = NextT(h) + 1], None, "")

\* a variant that adds the whole damping to each factor
KronUpdateInv_UnsplitDamping(h, k, damping) ==
    IF ~KronHasData(h, k) THEN Out(h, None, "AssertionError")
    ELSE KronSetInvs(h, k,
                     cholesky_inv(add_value_to_diagonal(h.T[h.K[k].A], RMax(damping, Eps))),
                     cholesky_inv(add_value_to_diagonal(h.T[h.K[k].B], RMax(damping, Eps))))

KronUpdateInv(h, k, damping) ==
    IF ~KronHasData(h, k) THEN Out(h, None, "AssertionError")
    ELSE LET A == h.T[h.K[k].A]
             B == h.T[h.K[k].B]
             A_eig_mean == RDiv(Trace(A), I(A.shape[1]))
             B_eig_mean == RDiv(Trace(B), I(B.shape[1]))
             pi == RSqrt(RDiv(A_eig_mean, B_eig_mean))
             r  == RSqrt(damping)
         IN  KronSetInvs(h, k,
                         cholesky_inv(add_value_to_diagonal(A, RMax(RMul(r, pi), Eps))),
                         cholesky_inv(add_value_to_diagonal(B, RMax(RDiv(r, pi), Eps))))

\* Diag.update_inv(damping): 1 / (value + damping), element-wise
Reciprocal(t, damping) ==
    Tensor(t.shape, [q \in 1..Numel(t) |-> RDiv(I(1), RAdd(t.data[q], damping))])

DiagUpdateInv(h, d, damping) ==
    LET h1 == IF h.D[d].weight # None
              THEN [AllocT(h, Reciprocal(h.T[h.D[d].weight], damping)) EXCEPT !.D[d].weight_inv = NextT(h)]
              ELSE h
    IN  IF h1.D[d].bias # None
        THEN [AllocT(h1, Reciprocal(h1.T[h1.D[d].bias], damping)) EXCEPT !.D[d].bias_inv = NextT(h1)]
        ELSE h1

\* UnitWise.update_inv(damping): torch.inverse(data + damping * I) per block
UnitUpdateInv(h, u, damping) ==
    IF ~UnitHasData(h, u) THEN Out(h, None, "AssertionError")
    ELSE LET data == h.T[h.U[u].data]
             w    == data.shape[2]
             dmp  == Tensor(data.shape,
                            [q \in 1..Numel(data) |->
                                IF ((q - 1) % (w * w)) \div w = ((q - 1) % (w * w)) % w
                                THEN damping ELSE I(0)])
             inv  == BatchedInverse(TAdd(data, dmp))
         IN  IF IsFailure(inv) THEN Out(h, None, "RuntimeError")
             ELSE Out([AllocT(h, inv) EXCEPT !.U[u].inv = NextT(h)], None, "")

\* the property Kron.B_dim: B.shape[0], cached in _B_dim on first use
KronBDim(h, k) ==
    IF h.K[k].B_dim = None /\ h.K[k].B # None
    THEN [h EXCEPT !.K[k].B_dim = h.T[h.K[k].B].shape[1]]
    ELSE h

\* a Kron.mvp that splits the product at the first column instead of the last
KronMvp_SplitsAtFirstColumn(h, k, vw, vb, use_inv, inplace) ==
    LET mat_A == IF use_inv THEN h.K[k].A_inv ELSE h.K[k].A
        mat_B == IF use_inv THEN h.K[k].B_inv ELSE h.K[k].B
        hb    == KronBDim(h, k)
        B_dim == hb.K[k].B_dim
        W     == hb.T[vw]
        v0    == View2d(W, B_dim)
        vec2d == IF vb # None THEN CatCol(v0, hb.T[vb]) ELSE v0
        mvp2d == Mm(Mm(hb.T[mat_B], vec2d), hb.T[mat_A])
        mvp_w == IF vb # None
                 THEN ViewAs(Mat2(mvp2d.shape[1], mvp2d.shape[2] - 1,
                                  LAMBDA i, j : At(mvp2d, i, j + 1)), W)
                 ELSE ViewAs(mvp2d, W)
        mvp_b == Tensor(<<mvp2d.shape[1]>>, [i \in 1..mvp2d.shape[1] |-> At(mvp2d, i, 1)])
        hw    == IF inplace THEN [hb EXCEPT !.T[vw] = mvp_w] ELSE hb
        hwb   == IF inplace THEN [hw EXCEPT !.T[vb] = mvp_b] ELSE hw
    IN  IF mat_A = None \/ mat_B = None THEN Out(hb, <<>>, "TypeError")
        ELSE IF vb # None THEN Out(hwb, <<mvp_w, mvp_b>>, "")
        ELSE Out(hw, <<mvp_w>>, "")

\* Kron.mvp(vec_weight = vw, vec_bias = vb, use_inv, inplace). vw and vb are
\* references to the caller's tensors (vb may be None). Returns <<mvp_w>> or
\* <<mvp_w, mvp_b>>; the exceptions are those torch and Python raise for a
\* None operand or mismatched shapes.
KronMvp(h, k, vw, vb, use_inv, inplace) ==
    LET mat_A == IF use_inv THEN h.K[k].A_inv ELSE h.K[k].A
        mat_B == IF use_inv THEN h.K[k].B_inv ELSE h.K[k].B
        hb    == KronBDim(h, k)
        B_dim == hb.K[k].B_dim
        W     == hb.T[vw]
        v0    == View2d(W, B_dim)
        vec2d == IF vb # None THEN CatCol(v0, hb.T[vb]) ELSE v0
        mvp2d == Mm(Mm(hb.T[mat_B], vec2d), hb.T[mat_A])
        mvp_w == IF vb # None THEN ViewAs(DropLastCol(mvp2d), W) ELSE ViewAs(mvp2d, W)
        mvp_b == LastCol(mvp2d)
        hw    == IF inplace THEN [hb EXCEPT !.T[vw] = mvp_w] ELSE hb
        hwb   == IF inplace THEN [hw EXCEPT !.T[vb] = mvp_b] ELSE hw
    IN  IF B_dim = None THEN Out(hb, <<>>, "TypeError")
        ELSE IF Numel(W) % B_dim # 0 THEN Out(hb, <<>>, "RuntimeError")
        ELSE IF vb # None /\ (Len(hb.T[vb].shape) # 1 \/ Numel(hb.T[vb]) # B_dim)
             THEN Out(hb, <<>>, "RuntimeError")
        ELSE IF mat_B = None THEN Out(hb, <<>>, "AttributeError")
        ELSE IF hb.T[mat_B].shape[2] # vec2d.shape[1] THEN Out(hb, <<>>, "RuntimeError")
        ELSE IF mat_A = None THEN Out(hb, <<>>, "TypeError")
        ELSE IF vec2d.shape[2] # hb.T[mat_A].shape[1] THEN Out(hb, <<>>, "RuntimeError")
        ELSE IF Numel(mvp_w) # Numel(W) THEN Out(hb, <<>>, "RuntimeError")
        ELSE IF vb # None THEN Out(hwb, <<mvp_w, mvp_b>>, "")
        ELSE Out(hw, <<mvp_w>>, "")

(***************************************************************************)
(* class SymMatrix                                                         *)
(***************************************************************************)
\* SymMatrix.__init__(data, kron, diag, unit): inv starts as None
SymInit(data, kron, diag, unit) ==
    [data |-> data, kron |-> kron, diag |-> diag, unit |-> unit, inv |-> None]

\* SymMatrix.__add__(self = x, other = y): the heap and the new SymMatrix
SymAdd(h, x, y) ==
    LET sx == h.S[x]
        sy == h.S[y]
        \* data
        h1 == IF sy.data # None /\ sx.data # None
              THEN AllocT(h, TAdd(h.T[sx.data], h.T[sy.data])) ELSE h
        data == IF sy.data # None
                THEN (IF sx.data # None THEN NextT(h) ELSE sy.data)
                ELSE sx.data
        \* kron
        ok == IF sy.kron # None /\ sx.kron # None THEN KronAdd(h1, sx.kron, sy.kron)
              ELSE Out(h1, IF sy.kron # None THEN sy.kron ELSE sx.kron, "")
        \* diag
        od == IF sy.diag # None /\ sx.diag # None THEN DiagAdd(ok.h, sx.diag, sy.diag)
              ELSE Out(ok.h, IF sy.diag # None THEN sy.diag ELSE sx.diag, "")
        \* unit
        ou == IF sy.unit # None /\ sx.unit # None THEN UnitAdd(od.h, sx.unit, sy.unit)
              ELSE Out(od.h, IF sy.unit # None THEN sy.unit ELSE sx.unit, "")
    IN  Out(AllocS(ou.h, SymInit(data, ok.r, od.r, ou.r)), NextS(ou.h), "")

\* SymMatrix.__iadd__(self = x, other = y): the heap after it (it returns self)
SymIAdd(h, x, y) ==
    LET h1 == IF h.S[y].data # None
              THEN (IF h.S[x].data # None
                    THEN [h EXCEPT !.T[h.S[x].data] = TAdd(@, h.T[h.S[y].data])]
                    ELSE [h EXCEPT !.S[x].data = h.S[y].data])
              ELSE h
        h2 == IF h1.S[y].kron # None
              THEN (IF h1.S[x].kron # None
                    THEN KronIAdd(h1, h1.S[x].kron, h1.S[y].kron)
                    ELSE [h1 EXCEPT !.S[x].kron = h1.S[y].kron])
              ELSE h1
        h3 == IF h2.S[y].diag # None
              THEN (IF h2.S[x].diag # None
                    THEN DiagIAdd(h2, h2.S[x].diag, h2.S[y].diag)
                    ELSE [h2 EXCEPT !.S[x].diag = h2.S[y].diag])
              ELSE h2
    IN  IF h3.S[y].unit # None
        THEN (IF h3.S[x].unit # None
              THEN UnitIAdd(h3, h3.S[x].unit, h3.S[y].unit)
              ELSE [h3 EXCEPT !.S[x].unit = h3.S[y].unit])
        ELSE h3

\* SymMatrix.mul_(value): data, kron, diag, unit in this order; an exception
\* leaves the parts already scaled as they are
SymMul(h, x, c) ==
    LET h1 == IF h.S[x].data # None THEN [h EXCEPT !.T[h.S[x].data] = TScale(@, c)] ELSE h
        ok == IF h1.S[x].kron # None THEN KronMul(h1, h1.S[x].kron, c) ELSE Out(h1, None, "")
        h3 == IF ok.h.S[x].diag # None THEN DiagMul(ok.h, ok.h.S[x].diag, c) ELSE ok.h
        h4 == IF h3.S[x].unit # None THEN UnitMul(h3, h3.S[x].unit, c) ELSE h3
    IN  IF ok.err # "" THEN Out(ok.h, x, ok.err) ELSE Out(h4, x, "")

\* SymMatrix.update_inv(damping): data, kron, diag, unit in this order; each
\* part runs only if the parts before it raised nothing
SymUpdateInvData(h, x, inv) ==
    IF IsFailure(inv) THEN Out(h, None, "NumericalError")
    ELSE Out([AllocT(h, inv) EXCEPT !.S[x].inv = NextT(h)], None, "")

SymUpdateInvKron(o, x, damping) ==
    IF o.err # "" \/ o.h.S[x].kron = None THEN o
    ELSE KronUpdateInv(o.h, o.h.S[x].kron, damping)

SymUpdateInvDiag(o, x, damping) ==
    IF o.err # "" \/ o.h.S[x].diag = None THEN o
    ELSE Out(DiagUpdateInv(o.h, o.h.S[x].diag, damping), None, "")

SymUpdateInvUnit(o, x, damping) ==
    IF o.err # "" \/ o.h.S[x].unit = None THEN o
    ELSE UnitUpdateInv(o.h, o.h.S[x].unit, damping)

SymUpdateInv(h, x, damping) ==
    SymUpdateInvUnit(
        SymUpdateInvDiag(
            SymUpdateInvKron(
                IF h.S[x].data = None THEN Out(h, None, "")
                ELSE SymUpdateInvData(h, x, cholesky_inv(add_value_to_diagonal(h.T[h.S[x].data], damping))),
                x, damping),
            x, damping),
        x, damping)

(***************************************************************************)
(* SpecSym: SymMatrix objects under the operations of symmatrix.py.        *)
(* Two matrices X and Y are constructed as SymMatrix.__init__ allows       *)
(* (any sub-representation absent, present, or present without data), then *)
(* __add__, __iadd__, mul_ and update_inv are applied in any order.        *)
(***************************************************************************)
MaxOps == 2

symVars == <<nops, reg>>
drvVars == <<layers, step, sched, margs, A_inv_exists, config, caller, log>>

NoOp == [op |-> "init", x |-> None, y |-> None, r |-> None, err |-> "", pre |-> EmptyHeap]

DrvIdle ==
    /\ layers = <<>>
    /\ step = 0
    /\ sched = <<>>
    /\ margs = <<>>
    /\ A_inv_exists = FALSE
    /\ config = <<>>
    /\ caller = 0
    /\ log = <<>>

\* what a constructed SymMatrix may hold
Profiles ==
    { [data |-> FALSE, kron |-> "none",  diag |-> "none",  unit |-> "none"],
      [data |-> TRUE,  kron |-> "none",  diag |-> "none",  unit |-> "none"],
      [data |-> FALSE, kron |-> "AB",    diag |-> "none",  unit |-> "none"],
      [data |-> FALSE, kron |-> "A",     diag |-> "b",     unit |-> "empty"],
      [data |-> FALSE, kron |-> "none",  diag |-> "w",     unit |-> "data"],
      [data |-> FALSE, kron |-> "empty", diag |-> "empty", unit |-> "data"],
      [data |-> TRUE,  kron |-> "B",     diag |-> "wb",    unit |-> "none"],
      [data |-> TRUE,  kron |-> "AB",    diag |-> "wb",    unit |-> "data"] }

\* the values of a constructed matrix, scaled by v: symmetric positive definite
ValData(v)   == Tensor(<<2, 2>>, <<I(2 * v), I(v), I(v), I(2 * v)>>)
ValA(v)      == Tensor(<<2, 2>>, <<I(2 * v), I(v), I(v), I(2 * v)>>)
ValB(v)      == Tensor(<<2, 2>>, <<I(2 * v), I(0), I(0), I(2 * v)>>)
ValWeight(v) == Tensor(<<2>>, <<I(v), I(2 * v)>>)
ValBias(v)   == Tensor(<<1>>, <<I(3 * v)>>)
ValUnit(v)   == Tensor(<<2, 1, 1>>, <<I(v), I(2 * v)>>)

\* SymMatrix(data, kron=Kron(..), diag=Diag(..), unit=UnitWise(..)) for a profile
Construct(h, p, v) ==
    LET h1 == IF p.data THEN AllocT(h, ValData(v)) ELSE h
        data == IF p.data THEN NextT(h) ELSE None
        hasA == p.kron \in {"A", "AB"}
        hasB == p.kron \in {"B", "AB"}
        h2 == IF hasA THEN AllocT(h1, ValA(v)) ELSE h1
        h3 == IF hasB THEN AllocT(h2, ValB(v)) ELSE h2
        h4 == IF p.kron # "none"
              THEN AllocK(h3, KronInit(IF hasA THEN NextT(h1) ELSE None,
                                       IF hasB THEN NextT(h2) ELSE None))
              ELSE h3
        kron == IF p.kron # "none" THEN NextK(h3) ELSE None
        hasW == p.diag \in {"w", "wb"}
        hasBi == p.diag \in {"b", "wb"}
        h5 == IF hasW THEN AllocT(h4, ValWeight(v)) ELSE h4
        h6 == IF hasBi THEN AllocT(h5, ValBias(v)) ELSE h5
        h7 == IF p.diag # "none"
              THEN AllocD(h6, DiagInit(IF hasW THEN NextT(h4) ELSE None,
                                       IF hasBi THEN NextT(h5) ELSE None))
              ELSE h6
        diag == IF p.diag # "none" THEN NextD(h6) ELSE None
        h8 == IF p.unit = "data" THEN AllocT(h7, ValUnit(v)) ELSE h7
        h9 == IF p.unit # "none"
              THEN AllocU(h8, UnitInit(IF p.unit = "data" THEN NextT(h7) ELSE None))
              ELSE h8
        unit == IF p.unit # "none" THEN NextU(h8) ELSE None
    IN  AllocS(h9, SymInit(data, kron, diag, unit))

InitSym ==
    /\ \E px, py \in Profiles : heap = Construct(Construct(EmptyHeap, px, 1), py, 2)
    /\ reg = [X |-> 1, Y |-> 2, R |-> None]
    /\ nops = 0
    /\ pc = "sym"
    /\ last = NoOp
    /\ DrvIdle

Operands == {reg.X, reg.Y}
Roots == {reg.X, reg.Y, reg.R} \ {None}

\* R = x + y
OpAdd(x, y) ==
    /\ nops < MaxOps
    /\ LET o == SymAdd(heap, x, y)
       IN  /\ heap' = o.h
           /\ reg' = [reg EXCEPT !.R = o.r]
           /\ last' = [op |-> "add", x |-> x, y |-> y, r |-> o.r, err |-> o.err, pre |-> heap]
    /\ nops' = nops + 1
    /\ UNCHANGED <<pc, drvVars>>

\* x += y
OpIAdd(x, y) ==
    /\ nops < MaxOps
    /\ heap' = SymIAdd(heap, x, y)
    /\ last' = [op |-> "iadd", x |-> x, y |-> y, r |-> x, err |-> "", pre |-> heap]
    /\ nops' = nops + 1
    /\ UNCHANGED <<pc, reg, drvVars>>

\* x.mul_(2)
OpMul(x) ==
    /\ nops < MaxOps
    /\ LET o == SymMul(heap, x, I(2))
       IN  /\ heap' = o.h
           /\ last' = [op |-> "mul", x |-> x, y |-> None, r |-> x, err |-> o.err, pre |-> heap]
    /\ nops' = nops + 1
    /\ UNCHANGED <<pc, reg, drvVars>>

\* the square roots update_inv takes are exact for these values
ExactKronDamping(h, k, damping) ==
    KronHasData(h, k) =>
        /\ ~IsNaN(RSqrt(damping))
        /\ ~IsNaN(RSqrt(RDiv(RDiv(Trace(h.T[h.K[k].A]), I(h.T[h.K[k].A].shape[1])),
                             RDiv(Trace(h.T[h.K[k].B]), I(h.T[h.K[k].B].shape[1])))))

\* x.update_inv(damping = 1)
OpUpdateInv(x) ==
    /\ nops < MaxOps
    /\ heap.S[x].kron # None => ExactKronDamping(heap, heap.S[x].kron, I(1))
    /\ LET o == SymUpdateInv(heap, x, I(1))
       IN  /\ heap' = o.h
           /\ last' = [op |-> "update_inv", x |-> x, y |-> None, r |-> None, err |-> o.err, pre |-> heap]
    /\ nops' = nops + 1
    /\ UNCHANGED <<pc, reg, drvVars>>

NextSym ==
    \/ \E x, y \in Operands : OpAdd(x, y)
    \/ \E x \in Roots, y \in Operands : OpIAdd(x, y)
    \/ \E x \in Roots : OpMul(x)
    \/ \E x \in Roots : OpUpdateInv(x)

SpecSym == InitSym /\ [][NextSym]_vars

(***************************************************************************)
(* What a SymMatrix holds. A sub-representation is held when its object    *)
(* exists and has data in the sense of the classes' own has_data           *)
(* properties: Kron needs both factors, UnitWise its data; Diag holds its  *)
(* weight and its bias separately.                                         *)
(***************************************************************************)
HoldsData(h, x)   == h.S[x].data # None
HoldsKron(h, x)   == h.S[x].kron # None /\ KronHasData(h, h.S[x].kron)
HoldsWeight(h, x) == h.S[x].diag # None /\ h.D[h.S[x].diag].weight # None
HoldsBias(h, x)   == h.S[x].diag # None /\ h.D[h.S[x].diag].bias # None
HoldsUnit(h, x)   == h.S[x].unit # None /\ UnitHasData(h, h.S[x].unit)

\* the values of x, part by part (kron as the pair of its factors)
Values(h, x) ==
    [data   |-> IF HoldsData(h, x) THEN <<h.T[h.S[x].data]>> ELSE <<>>,
     kron   |-> IF HoldsKron(h, x)
                THEN <<h.T[h.K[h.S[x].kron].A], h.T[h.K[h.S[x].kron].B]>> ELSE <<>>,
     weight |-> IF HoldsWeight(h, x) THEN <<h.T[h.D[h.S[x].diag].weight]>> ELSE <<>>,
     bias   |-> IF HoldsBias(h, x) THEN <<h.T[h.D[h.S[x].diag].bias]>> ELSE <<>>,
     unit   |-> IF HoldsUnit(h, x) THEN <<h.T[h.U[h.S[x].unit].data]>> ELSE <<>>]

Parts == {"data", "kron", "weight", "bias", "unit"}

\* the element-wise sum of two parts, a part alone, or nothing
SumOfParts(a, b) ==
    IF a # <<>> /\ b # <<>> THEN [q \in 1..Len(a) |-> TAdd(a[q], b[q])]
    ELSE IF a # <<>> THEN a ELSE b

\* the cached inverses reachable from x: references and values
Inverses(h, x) ==
    LET val(t) == IF t = None THEN <<>> ELSE <<t, h.T[t]>>
        sx == h.S[x]
    IN  [inv        |-> val(sx.inv),
         A_inv      |-> IF sx.kron = None THEN <<>> ELSE val(h.K[sx.kron].A_inv),
         B_inv      |-> IF sx.kron = None THEN <<>> ELSE val(h.K[sx.kron].B_inv),
         weight_inv |-> IF sx.diag = None THEN <<>> ELSE val(h.D[sx.diag].weight_inv),
         bias_inv   |-> IF sx.diag = None THEN <<>> ELSE val(h.D[sx.diag].bias_inv),
         unit_inv   |-> IF sx.unit = None THEN <<>> ELSE val(h.U[sx.unit].inv)]

\* the identities of x's sub-representation objects and of the storage they hold
Identity(h, x) ==
    LET sx == h.S[x]
    IN  [data   |-> sx.data,
         kron   |-> IF HoldsKron(h, x) THEN <<sx.kron, h.K[sx.kron].A, h.K[sx.kron].B>> ELSE <<>>,
         weight |-> IF HoldsWeight(h, x) THEN <<sx.diag, h.D[sx.diag].weight>> ELSE <<>>,
         bias   |-> IF HoldsBias(h, x) THEN <<sx.diag, h.D[sx.diag].bias>> ELSE <<>>,
         unit   |-> IF HoldsUnit(h, x) THEN <<sx.unit, h.U[sx.unit].data>> ELSE <<>>]

\* C5: x += y on a receiver x that already holds a sub-representation keeps
\* that sub-representation object and its tensor storage the same objects,
\* the stored values become the sum with y's (or stay, if y holds none), and
\* every cached inverse of x (inv, A_inv, B_inv, weight_inv, bias_inv, unit
\* inv) is the same reference with the same value as before: a reference
\* taken earlier to x's A_inv still denotes x's A_inv.
C5_IAddKeepsIdentityAndInverses ==
    last.op = "iadd" =>
        LET p == last.pre
            x == last.x
        IN  /\ \A part \in Parts :
                  Values(p, x)[part] # <<>> =>
                      /\ Identity(heap, x)[part] = Identity(p, x)[part]
                      /\ Values(heap, x)[part] =
                             SumOfParts(Values(p, x)[part], Values(p, last.y)[part])
            /\ p.S[x].kron # None => heap.S[x].kron = p.S[x].kron
            /\ p.S[x].diag # None => heap.S[x].diag = p.S[x].diag
            /\ p.S[x].unit # None => heap.S[x].unit = p.S[x].unit
            /\ \A f \in DOMAIN Inverses(p, x) :
                  Inverses(p, x)[f] # <<>> => Inverses(heap, x)[f] = Inverses(p, x)[f]
            /\ heap.S[x].inv = p.S[x].inv

\* an in-place sum of two populated Krons onto a receiver with all its inverses cached
C5_Witness ==
    /\ last.op = "iadd"
    /\ last.x # last.y
    /\ \A part \in Parts : Values(last.pre, last.x)[part] # <<>> /\ Values(last.pre, last.y)[part] # <<>>
    /\ \A f \in DOMAIN Inverses(last.pre, last.x) : Inverses(last.pre, last.x)[f] # <<>>
    /\ Values(heap, last.x) # Values(last.pre, last.x)

\* both operands of the last operation held a Kron, so its factors were summed
KronSummed == HoldsKron(last.pre, last.x) /\ HoldsKron(last.pre, last.y)

\* C6 (as stated in the specification): whenever a Kron's factors were mutated
\* by an in-place addition, its A_inv and B_inv are null afterwards, so a
\* non-null A_inv or B_inv was always computed after the last addition.
C6_AsStated_IAddInvalidatesInverses ==
    (last.op = "iadd" /\ KronSummed) =>
        /\ heap.K[heap.S[last.x].kron].A_inv = None
        /\ heap.K[heap.S[last.x].kron].B_inv = None

\* C6 (amended): an in-place addition to a Kron's factors leaves A_inv and
\* B_inv exactly as they were: null if they were null, otherwise the same
\* tensors with the same values, now inverses of the factors before the
\* addition. Only the new Kron built by the out-of-place sum of two populated
\* Krons has null A_inv and B_inv.
C6_IAddKeepsStaleKronInverses ==
    /\ (last.op = "iadd" /\ KronSummed) =>
           LET k  == heap.S[last.x].kron
               p  == last.pre
           IN  /\ heap.K[k].A_inv = p.K[k].A_inv
               /\ heap.K[k].B_inv = p.K[k].B_inv
               /\ p.K[k].A_inv # None =>
                      /\ heap.T[heap.K[k].A_inv] = p.T[p.K[k].A_inv]
                      /\ heap.T[heap.K[k].A] # p.T[p.K[k].A]
               /\ p.K[k].B_inv # None =>
                      /\ heap.T[heap.K[k].B_inv] = p.T[p.K[k].B_inv]
                      /\ heap.T[heap.K[k].B] # p.T[p.K[k].B]
    /\ (last.op = "add" /\ KronSummed) =>
           /\ heap.K[heap.S[last.r].kron].A_inv = None
           /\ heap.K[heap.S[last.r].kron].B_inv = None

\* factors with cached inverses are added to in place; the inverses stay, stale
C6_Witness ==
    /\ last.op = "iadd"
    /\ KronSummed
    /\ last.pre.K[last.pre.S[last.x].kron].A_inv # None
    /\ heap.K[heap.S[last.x].kron].A_inv # None
    /\ heap.K[heap.S[last.x].kron].B_inv # None
    /\ heap.T[heap.K[heap.S[last.x].kron].A] # last.pre.T[last.pre.K[last.pre.S[last.x].kron].A]

\* C7 (as stated in the specification): the result of x + y carries no cached
\* inverse for any sub-representation, whatever the operands.
C7_AsStated_AddResultHasNoInverse ==
    last.op = "add" =>
        \A f \in DOMAIN Inverses(heap, last.r) : Inverses(heap, last.r)[f] = <<>>

\* C8: x + y and x += y work representation by representation: the result
\* holds the element-wise sum where both operands hold the representation,
\* the one operand's values where only one holds it, and nothing where
\* neither does.
C8_RepresentationWise ==
    last.op \in {"add", "iadd"} =>
        \A part \in Parts :
            Values(heap, last.r)[part] =
                SumOfParts(Values(last.pre, last.x)[part], Values(last.pre, last.y)[part])

\* a sum where one representation is held by both operands, one by the
\* first only, one by the second only and one by neither
C8_Witness ==
    /\ last.op \in {"add", "iadd"}
    /\ last.x # last.y
    /\ \E a, b, c, d \in Parts :
          LET vx == Values(last.pre, last.x)
              vy == Values(last.pre, last.y)
          IN  /\ vx[a] # <<>> /\ vy[a] # <<>> /\ Values(heap, last.r)[a] # vx[a]
              /\ vx[b] # <<>> /\ vy[b] = <<>>
              /\ vx[c] = <<>> /\ vy[c] # <<>>
              /\ vx[d] = <<>> /\ vy[d] = <<>> /\ Values(heap, last.r)[d] = <<>>

\* every sub-representation object of x holds data
Populated(h, x) ==
    /\ h.S[x].kron # None => KronHasData(h, h.S[x].kron)
    /\ h.S[x].diag # None => HoldsWeight(h, x) \/ HoldsBias(h, x)
    /\ h.S[x].unit # None => UnitHasData(h, h.S[x].unit)

\* x and y are populated and hold the same representations
Matching(h, x, y) ==
    /\ Populated(h, x)
    /\ Populated(h, y)
    /\ \A part \in Parts : (Values(h, x)[part] = <<>>) <=> (Values(h, y)[part] = <<>>)

AddValues(h, x, y) == LET o == SymAdd(h, x, y) IN Values(o.h, o.r)

AddLeft(h, x, y, z) ==
    LET o == SymAdd(h, x, y) IN AddValues(o.h, o.r, z)

AddRight(h, x, y, z) ==
    LET o == SymAdd(h, y, z) IN AddValues(o.h, x, o.r)

\* C9: on SymMatrix objects with matching populated sub-representations,
\* x + y = y + x and (x + y) + z = x + (y + z) in values, and x += x leaves
\* x with the values x.mul_(2) leaves it with.
C9_AddCommutesAssociatesDoubles ==
    /\ \A x, y \in Operands :
           Matching(heap, x, y) =>
               /\ AddValues(heap, x, y) = AddValues(heap, y, x)
               /\ \A z \in Operands :
                      Matching(heap, y, z) =>
                          AddLeft(heap, x, y, z) = AddRight(heap, x, y, z)
    /\ \A x \in Operands :
           Populated(heap, x) =>
               LET o == SymMul(heap, x, I(2))
               IN  /\ o.err = ""
                   /\ Values(SymIAdd(heap, x, x), x) = Values(o.h, x)

\* two objects with the same populated representations and different
\* values, one of them already the target of an in-place sum
C9_Witness ==
    /\ last.op = "iadd"
    /\ Matching(heap, reg.X, reg.Y)
    /\ HoldsKron(heap, reg.X) /\ HoldsData(heap, reg.X) /\ HoldsUnit(heap, reg.X)
    /\ Values(heap, reg.X) # Values(heap, reg.Y)
    /\ AddLeft(heap, reg.X, reg.Y, reg.X) # AddValues(heap, reg.X, reg.Y)
    /\ Values(SymIAdd(heap, reg.X, reg.X), reg.X) # Values(heap, reg.X)

\* C17 (as stated in the specification): on a SymMatrix holding any subset of
\* the sub-representations, also one whose Kron has a single factor or whose
\* UnitWise has no data, mul_, +, += and update_inv return without an
\* exception, and mul_ and update_inv leave every absent part absent.
C17_AsStated_PartialNeverRaises ==
    last.op \in {"add", "iadd", "mul", "update_inv"} =>
        /\ last.err = ""
        /\ last.op \in {"mul", "update_inv"} =>
              \A p \in Parts : Values(last.pre, last.x)[p] = <<>> => Values(heap, last.x)[p] = <<>>

(***************************************************************************)
(* SpecMvp: Kron.mvp on its own. A Kron with symmetric factors A and B, a  *)
(* weight tensor (2-D for a linear layer, 4-D for a convolution) and an    *)
(* optional bias are constructed; update_inv may be called, then mvp is.   *)
(***************************************************************************)
MaxDimA == 2
MaxDimB == 2

\* symmetric factors: positive definite, or with pairwise different entries
FactorPD(n)    == Mat2(n, n, LAMBDA i, j : IF i = j THEN I(2) ELSE I(1))
FactorMixed(n) == Mat2(n, n, LAMBDA i, j : I(((i * j + i + j) % 5) - 1))
Factors(n)     == {FactorPD(n), FactorMixed(n)}

\* vectors of length n: the unit vectors and one with different entries
Vectors(n) ==
    {[q \in 1..n |-> IF q = u THEN I(1) ELSE I(0)] : u \in 1..n}
        \cup {[q \in 1..n |-> IF q % 2 = 0 THEN I(0 - q) ELSE I(q + 1)]}

WeightShape(dB, dA, conv) == IF conv THEN <<dB, dA, 1, 1>> ELSE <<dB, dA>>

\* the weight and bias whose view [weight | bias] has the row-major entries v
WeightOf(v, dB, dA, n, conv) ==
    Tensor(WeightShape(dB, dA, conv),
           [q \in 1..(dB * dA) |-> v[((q - 1) \div dA) * n + ((q - 1) % dA) + 1]])

BiasOf(v, dB, n) == Tensor(<<dB>>, [i \in 1..dB |-> v[i * n]])

InitMvp ==
    /\ \E dA \in 1..MaxDimA, dB \in 1..MaxDimB, bias \in BOOLEAN, conv \in BOOLEAN :
          LET n == IF bias THEN dA + 1 ELSE dA
          IN  \E A \in Factors(n), B \in Factors(dB), v \in Vectors(dB * n) :
                 LET h1 == AllocT(AllocT(EmptyHeap, A), B)
                     h2 == AllocK(h1, KronInit(1, 2))
                     h3 == AllocT(h2, WeightOf(v, dB, dA, n, conv))
                     h4 == IF bias THEN AllocT(h3, BiasOf(v, dB, n)) ELSE h3
                 IN  /\ heap = h4
                     /\ reg = [kron |-> 1, weight |-> 3, bias |-> IF bias THEN 4 ELSE None]
    /\ nops = 0
    /\ pc = "mvp"
    /\ last = [op |-> "init", use_inv |-> FALSE, inplace |-> FALSE, r |-> <<>>,
               err |-> "", pre |-> EmptyHeap]
    /\ DrvIdle

\* kron.update_inv(damping = 1)
MvpUpdateInv ==
    /\ pc = "mvp"
    /\ nops < MaxOps
    /\ heap.K[reg.kron].A_inv = None
    /\ ExactKronDamping(heap, reg.kron, I(1))
    /\ LET o == KronUpdateInv(heap, reg.kron, I(1))
       IN  /\ heap' = o.h
           /\ last' = [op |-> "update_inv", use_inv |-> FALSE, inplace |-> FALSE,
                       r |-> <<>>, err |-> o.err, pre |-> heap]
    /\ nops' = nops + 1
    /\ UNCHANGED <<pc, reg, drvVars>>

\* kron.mvp(vec_weight, vec_bias, use_inv, inplace)
MvpCall(use_inv, inplace) ==
    /\ pc = "mvp"
    /\ nops < MaxOps
    /\ LET o == KronMvp(heap, reg.kron, reg.weight, reg.bias, use_inv, inplace)
       IN  /\ heap' = o.h
           /\ last' = [op |-> "mvp", use_inv |-> use_inv, inplace |-> inplace,
                       r |-> o.r, err |-> o.err, pre |-> heap]
    /\ nops' = nops + 1
    /\ pc' = "called"
    /\ UNCHANGED <<reg, drvVars>>

NextMvp ==
    \/ MvpUpdateInv
    \/ \E use_inv \in BOOLEAN, inplace \in BOOLEAN : MvpCall(use_inv, inplace)

SpecMvp == InitMvp /\ [][NextMvp]_vars

\* the dense Kronecker product A (x) B
KronProduct(A, B) ==
    LET dA == A.shape[1]
        dB == B.shape[1]
    IN  Mat2(dA * dB, dA * dB,
             LAMBDA r, c : RMul(At(A, ((r - 1) \div dB) + 1, ((c - 1) \div dB) + 1),
                                At(B, ((r - 1) % dB) + 1, ((c - 1) % dB) + 1)))

\* vec(V): the columns of V stacked
VecOf(V) ==
    Tensor(<<V.shape[1] * V.shape[2]>>,
           [q \in 1..(V.shape[1] * V.shape[2]) |->
               At(V, ((q - 1) % V.shape[1]) + 1, ((q - 1) \div V.shape[1]) + 1)])

\* the inverse of VecOf for a matrix with m rows
UnVec(v, m) == Mat2(m, Numel(v) \div m, LAMBDA i, j : v.data[(j - 1) * m + i])

\* the factors the last mvp call used, and the matrix [weight | bias] it was given
MvpFactorA == last.pre.T[IF last.use_inv THEN last.pre.K[reg.kron].A_inv ELSE last.pre.K[reg.kron].A]
MvpFactorB == last.pre.T[IF last.use_inv THEN last.pre.K[reg.kron].B_inv ELSE last.pre.K[reg.kron].B]
MvpInput ==
    LET W  == last.pre.T[reg.weight]
        dB == W.shape[1]
        dA == Numel(W) \div dB
    IN  Mat2(dB, IF reg.bias = None THEN dA ELSE dA + 1,
             LAMBDA i, j : IF j <= dA THEN W.data[(i - 1) * dA + j]
                           ELSE last.pre.T[reg.bias].data[i])

\* C10: for symmetric A and B, kron.mvp on the weight viewed as (d_B, d_A),
\* with the bias as an extra last column when one is given, returns B V A,
\* the dense Kronecker product (A (x) B) applied to vec(V) and reshaped back;
\* the weight part is the first d_A columns in the weight's own shape, the
\* bias part is the last column, and with inplace both are written to the
\* caller's tensors. Without use_inv the call always succeeds.
C10_MvpIsKroneckerAction ==
    last.op = "mvp" =>
        /\ ~last.use_inv => last.err = ""
        /\ last.err = "" =>
              LET W   == last.pre.T[reg.weight]
                  dB  == W.shape[1]
                  dA  == Numel(W) \div dB
                  ref == UnVec(Mv(KronProduct(MvpFactorA, MvpFactorB), VecOf(MvpInput)), dB)
              IN  /\ IsSymmetric(MvpFactorA) /\ IsSymmetric(MvpFactorB)
                  /\ ref = Mm(Mm(MvpFactorB, MvpInput), MvpFactorA)
                  /\ last.r[1].shape = W.shape
                  /\ \A i \in 1..dB, j \in 1..dA : last.r[1].data[(i - 1) * dA + j] = At(ref, i, j)
                  /\ Len(last.r) = (IF reg.bias = None THEN 1 ELSE 2)
                  /\ reg.bias # None =>
                        /\ last.r[2].shape = <<dB>>
                        /\ \A i \in 1..dB : last.r[2].data[i] = At(ref, i, dA + 1)
                  /\ last.inplace =>
                        /\ heap.T[reg.weight] = last.r[1]
                        /\ reg.bias # None => heap.T[reg.bias] = last.r[2]
                  /\ ~last.inplace =>
                        /\ heap.T[reg.weight] = W
                        /\ reg.bias # None => heap.T[reg.bias] = last.pre.T[reg.bias]

\* an mvp with the cached inverses on a 2 x 2 weight with a bias, whose result
\* has a weight part and a bias part that differ from what was passed in
C10_Witness ==
    /\ last.op = "mvp"
    /\ last.err = ""
    /\ last.use_inv
    /\ reg.bias # None
    /\ heap.T[reg.weight].shape[1] >= 2
    /\ Numel(heap.T[reg.weight]) >= 4
    /\ last.r[1] # last.pre.T[reg.weight]
    /\ last.r[2] # last.pre.T[reg.bias]
    /\ \A q \in 1..Numel(last.r[1]) : last.r[1].data[q] # I(0)
    /\ \A q \in 1..Numel(last.r[2]) : last.r[2].data[q] # I(0)

(***************************************************************************)
(* The mvp methods of SymMatrix (layer-wise form), Diag and UnitWise. vw   *)
(* and vb are references to the caller's tensors (None when not given).    *)
(* The form of SymMatrix.mvp that takes a ParamVector is not modelled.     *)
(***************************************************************************)
\* Tensor.mul(m) element-wise, m of the same shape or with a single element
MulBy(t, m) ==
    Tensor(t.shape, [q \in 1..Numel(t) |-> RMul(t.data[q], m.data[IF Numel(m) = 1 THEN 1 ELSE q])])

\* one half of Diag.mvp: v.mul_(mat) or v.mul(mat), appended to rst
DiagMvpPart(o, v, mat, inplace) ==
    IF o.err # "" \/ v = None THEN o
    ELSE IF mat = None THEN Out(o.h, <<>>, "TypeError")
    ELSE IF Numel(o.h.T[mat]) # 1 /\ o.h.T[mat].shape # o.h.T[v].shape
         THEN Out(o.h, <<>>, "RuntimeError")
    ELSE Out(IF inplace THEN [o.h EXCEPT !.T[v] = MulBy(o.h.T[v], o.h.T[mat])] ELSE o.h,
             Append(o.r, MulBy(o.h.T[v], o.h.T[mat])), "")

\* Diag.mvp(vec_weight, vec_bias, use_inv, inplace): the weight is multiplied
\* (in place, if asked) before the bias is looked at
DiagMvp(h, d, vw, vb, use_inv, inplace) ==
    IF vw = None /\ vb = None THEN Out(h, <<>>, "AssertionError")
    ELSE DiagMvpPart(
             DiagMvpPart(Out(h, <<>>, ""), vw,
                         IF use_inv THEN h.D[d].weight_inv ELSE h.D[d].weight, inplace),
             vb, IF use_inv THEN h.D[d].bias_inv ELSE h.D[d].bias, inplace)

\* torch.cat of the flattened vectors that are given
Cat1d(h, vw, vb) ==
    (IF vw = None THEN <<>> ELSE h.T[vw].data) \o (IF vb = None THEN <<>> ELSE h.T[vb].data)

\* the results of SymMatrix.mvp (layer-wise) from mvp1d, copied back if inplace
SymMvpSplit(h, vw, vb, mvp1d, inplace) ==
    IF vw # None /\ vb # None
    THEN Out(IF inplace
             THEN [h EXCEPT !.T[vw] = Tensor(h.T[vw].shape, SubSeq(mvp1d, 1, Numel(h.T[vw]))),
                            !.T[vb] = Tensor(<<Len(mvp1d) - Numel(h.T[vw])>>,
                                             SubSeq(mvp1d, Numel(h.T[vw]) + 1, Len(mvp1d)))]
             ELSE h,
             <<Tensor(h.T[vw].shape, SubSeq(mvp1d, 1, Numel(h.T[vw]))),
               Tensor(<<Len(mvp1d) - Numel(h.T[vw])>>,
                      SubSeq(mvp1d, Numel(h.T[vw]) + 1, Len(mvp1d)))>>, "")
    ELSE IF vw # None
         THEN Out(IF inplace THEN [h EXCEPT !.T[vw] = Tensor(h.T[vw].shape, mvp1d)] ELSE h,
                  <<Tensor(h.T[vw].shape, mvp1d)>>, "")
         ELSE Out(IF inplace THEN [h EXCEPT !.T[vb] = Tensor(h.T[vb].shape, mvp1d)] ELSE h,
                  <<Tensor(h.T[vb].shape, mvp1d)>>, "")

\* SymMatrix.mvp(vec_weight, vec_bias, use_inv, inplace)
SymMvp(h, x, vw, vb, use_inv, inplace) ==
    IF vw = None /\ vb = None THEN Out(h, <<>>, "AssertionError")
    ELSE IF (IF use_inv THEN h.S[x].inv ELSE h.S[x].data) = None THEN Out(h, <<>>, "TypeError")
    ELSE IF h.T[IF use_inv THEN h.S[x].inv ELSE h.S[x].data].shape[2] # Len(Cat1d(h, vw, vb))
         THEN Out(h, <<>>, "RuntimeError")
    ELSE SymMvpSplit(h, vw, vb,
                     Mv(h.T[IF use_inv THEN h.S[x].inv ELSE h.S[x].data],
                        Tensor(<<Len(Cat1d(h, vw, vb))>>, Cat1d(h, vw, vb))).data,
                     inplace)

\* torch.matmul(mat, v.unsqueeze(2)).squeeze(2) for mat (f, k, k) and v (f, k)
BlockMv(mat, v) ==
    Mat2(v.shape[1], v.shape[2],
         LAMBDA b, i :
            RSum([j \in 1..v.shape[2] |->
                    RMul(mat.data[(b - 1) * v.shape[2] * v.shape[2] + (i - 1) * v.shape[2] + j],
                         At(v, b, j))]))

\* the results of UnitWise.mvp from mvp_wb, copied back if inplace
UnitMvpSplit(h, vw, vb, mvp_wb, inplace) ==
    Out(IF inplace
        THEN [h EXCEPT !.T[vw] = DropLastCol(mvp_wb), !.T[vb] = LastCol(mvp_wb)]
        ELSE h,
        <<DropLastCol(mvp_wb), LastCol(mvp_wb)>>, "")

\* UnitWise.mvp(vec_weight, vec_bias, use_inv, inplace) for a weight (f_out, f_in)
\* and a bias (f_out). The test vec_weight.shape == vec_bias compares a
\* torch.Size with a tensor and is false, so the hstack branch runs.
UnitMvp(h, u, vw, vb, use_inv, inplace) ==
    IF vw = None \/ vb = None THEN Out(h, <<>>, "AttributeError")
    ELSE IF Len(h.T[vw].shape) # 2 \/ Len(h.T[vb].shape) # 1 \/ h.T[vb].shape[1] # h.T[vw].shape[1]
         THEN Out(h, <<>>, "RuntimeError")
    ELSE IF (IF use_inv THEN h.U[u].inv ELSE h.U[u].data) = None THEN Out(h, <<>>, "TypeError")
    ELSE IF h.T[IF use_inv THEN h.U[u].inv ELSE h.U[u].data].shape
                # <<h.T[vw].shape[1], h.T[vw].shape[2] + 1, h.T[vw].shape[2] + 1>>
         THEN Out(h, <<>>, "RuntimeError")
    ELSE UnitMvpSplit(h, vw, vb,
                      BlockMv(h.T[IF use_inv THEN h.U[u].inv ELSE h.U[u].data],
                              CatCol(h.T[vw], h.T[vb])),
                      inplace)

(***************************************************************************)
(* SpecUse: one SymMatrix holding every sub-representation, and a caller   *)
(* who may call update_inv and then calls mvp on one of the                *)
(* sub-representations with tensors of his own.                            *)
(***************************************************************************)
Targets == {"full", "kron", "diag", "unit"}

\* a symmetric B for which B + I is indefinite, so its factorization fails
ValB_Indefinite == Tensor(<<2, 2>>, <<I(2), I(4), I(4), I(2)>>)

UseUnit == Tensor(<<1, 2, 2>>, <<I(2), I(1), I(1), I(2)>>)

\* the caller's weight and bias for each target, with and without a bias
UseWeight(target, bias) ==
    CASE target = "full" -> IF bias THEN Tensor(<<1, 1>>, <<I(1)>>)
                                    ELSE Tensor(<<1, 2>>, <<I(1), I(2)>>)
      [] target = "kron" -> IF bias THEN Tensor(<<2, 1>>, <<I(1), I(2)>>)
                                    ELSE Tensor(<<2, 2>>, <<I(1), I(2), I(3), I(4)>>)
      [] target = "diag" -> Tensor(<<2>>, <<I(1), I(2)>>)
      [] target = "unit" -> Tensor(<<1, 1>>, <<I(1)>>)

UseBias(target) ==
    IF target = "kron" THEN Tensor(<<2>>, <<I(5), I(6)>>) ELSE Tensor(<<1>>, <<I(5)>>)

InitUse ==
    /\ \E target \in Targets, bias \in BOOLEAN, diag_bias \in BOOLEAN, pd \in BOOLEAN :
          /\ target = "unit" => bias
          /\ LET h1 == AllocT(AllocT(AllocT(EmptyHeap, ValData(1)), ValA(1)),
                              IF pd THEN ValA(1) ELSE ValB_Indefinite)
                 h2 == AllocT(AllocK(h1, KronInit(2, 3)), ValWeight(1))
                 h3 == IF diag_bias
                       THEN AllocD(AllocT(h2, ValBias(1)), DiagInit(4, 5))
                       ELSE AllocD(h2, DiagInit(4, None))
                 h4 == AllocU(AllocT(h3, UseUnit), UnitInit(NextT(h3)))
                 h5 == AllocS(h4, SymInit(1, 1, 1, 1))
                 h6 == AllocT(h5, UseWeight(target, bias))
             IN  /\ heap = IF bias THEN AllocT(h6, UseBias(target)) ELSE h6
                 /\ reg = [X |-> 1, target |-> target, weight |-> NextT(h5),
                           bias |-> IF bias THEN NextT(h6) ELSE None]
    /\ nops = 0
    /\ pc = "fresh"
    /\ last = [op |-> "init", use_inv |-> FALSE, inplace |-> FALSE, r |-> <<>>,
               err |-> "", pre |-> EmptyHeap]
    /\ DrvIdle

\* X.update_inv(damping = 1)
UseUpdateInv ==
    /\ pc = "fresh"
    /\ \E o \in {SymUpdateInv(heap, reg.X, I(1))} :
          /\ heap' = o.h
          /\ last' = [op |-> "update_inv", use_inv |-> FALSE, inplace |-> FALSE,
                      r |-> <<>>, err |-> o.err, pre |-> heap]
    /\ pc' = "inverted"
    /\ UNCHANGED <<nops, reg, drvVars>>

\* X.mvp / X.kron.mvp / X.diag.mvp / X.unit.mvp on the caller's tensors
MvpOf(h, target, x, vw, vb, use_inv, inplace) ==
    CASE target = "full" -> SymMvp(h, x, vw, vb, use_inv, inplace)
      [] target = "kron" -> KronMvp(h, h.S[x].kron, vw, vb, use_inv, inplace)
      [] target = "diag" -> DiagMvp(h, h.S[x].diag, vw, vb, use_inv, inplace)
      [] target = "unit" -> UnitMvp(h, h.S[x].unit, vw, vb, use_inv, inplace)

UseMvp(use_inv, inplace) ==
    /\ pc \in {"fresh", "inverted"}
    /\ \E o \in {MvpOf(heap, reg.target, reg.X, reg.weight, reg.bias, use_inv, inplace)} :
          /\ heap' = o.h
          /\ last' = [op |-> "mvp", use_inv |-> use_inv, inplace |-> inplace,
                      r |-> o.r, err |-> o.err, pre |-> heap]
    /\ pc' = "called"
    /\ UNCHANGED <<nops, reg, drvVars>>

NextUse ==
    \/ UseUpdateInv
    \/ \E use_inv \in BOOLEAN, inplace \in BOOLEAN : UseMvp(use_inv, inplace)

SpecUse == InitUse /\ [][NextUse]_vars

\* an inverse the call needs has never been computed
InverseMissing(h) ==
    CASE reg.target = "full" -> h.S[reg.X].inv = None
      [] reg.target = "kron" -> h.K[h.S[reg.X].kron].A_inv = None \/ h.K[h.S[reg.X].kron].B_inv = None
      [] reg.target = "diag" -> \/ h.D[h.S[reg.X].diag].weight_inv = None
                                \/ reg.bias # None /\ h.D[h.S[reg.X].diag].bias_inv = None
      [] reg.target = "unit" -> h.U[h.S[reg.X].unit].inv = None

CallerTensorsKept ==
    /\ heap.T[reg.weight] = last.pre.T[reg.weight]
    /\ reg.bias # None => heap.T[reg.bias] = last.pre.T[reg.bias]

\* C16 (as stated in the specification): mvp with use_inv on a representation
\* with an inverse that was never computed (full inv, A_inv or B_inv, a diag
\* reciprocal, unit inv) raises instead of returning a result and, also with
\* inplace, leaves the caller's weight and bias tensors as they were.
C16_AsStated_MissingInverseRaisesCleanly ==
    (last.op = "mvp" /\ last.use_inv /\ InverseMissing(last.pre)) =>
        /\ last.err # ""
        /\ last.r = <<>>
        /\ CallerTensorsKept

\* C18 (as stated in the specification): when update_inv raises because the
\* damped inversion of a part fails, no cached inverse has changed: inv,
\* A_inv, B_inv, the diag reciprocals and the unit inv are as before the call.
C18_AsStated_UpdateInvAtomic ==
    (last.op = "update_inv" /\ last.err # "") =>
        Inverses(heap, reg.X) = Inverses(last.pre, reg.X)

(***************************************************************************)
(* symmatrix.py: packing a symmetric matrix into its lower triangle        *)
(***************************************************************************)
\* torch.tril_indices(rows, cols): the positions <<r, c>> with c <= r, row by row
RECURSIVE tril_indices_from(_, _, _, _)
tril_indices_from(r, c, rows, cols) ==
    IF r > rows THEN <<>>
    ELSE IF c > r \/ c > cols THEN tril_indices_from(r + 1, 1, rows, cols)
    ELSE <<<<r, c>>>> \o tril_indices_from(r, c + 1, rows, cols)

tril_indices(rows, cols) == tril_indices_from(1, 1, rows, cols)

\* matrix_to_tril(mat)
matrix_to_tril(mat) ==
    IF Len(mat.shape) # 2 THEN [r |-> <<>>, err |-> "AssertionError"]
    ELSE LET idx == tril_indices(mat.shape[1], mat.shape[2])
         IN  [r   |-> Tensor(<<Len(idx)>>, [q \in 1..Len(idx) |-> At(mat, idx[q][1], idx[q][2])]),
              err |-> ""]

\* get_n_cols_by_tril, on tril.numel(): int(np.sqrt(2 * numel + 0.25) - 0.5),
\* the largest n with (n + 0.5)^2 <= 2 * numel + 0.25
get_n_cols_by_tril(numel) ==
    CHOOSE n \in 0..numel :
        /\ (2 * n + 1) * (2 * n + 1) <= 8 * numel + 1
        /\ 8 * numel + 1 < (2 * n + 3) * (2 * n + 3)

\* a variant that keeps rst + rst.T
MirrorLower_DoubledDiagonal(rst) ==
    Mat2(rst.shape[1], rst.shape[2], LAMBDA i, j : RAdd(At(rst, i, j), At(rst, j, i)))

\* rst + rst.T - torch.diag(torch.diag(rst))
MirrorLower(rst) ==
    Mat2(rst.shape[1], rst.shape[2],
         LAMBDA i, j : IF i = j THEN RSub(RAdd(At(rst, i, i), At(rst, i, i)), At(rst, i, i))
                        ELSE RAdd(At(rst, i, j), At(rst, j, i)))

\* rst[tril_indices[0], tril_indices[1]] = tril, on zeros(n_cols, n_cols)
PutLower(n_cols, idx, tril) ==
    Mat2(n_cols, n_cols,
         LAMBDA i, j : IF j <= i
                        THEN tril.data[IF Numel(tril) = 1 THEN 1
                                       ELSE CHOOSE q \in 1..Len(idx) : idx[q] = <<i, j>>]
                        ELSE I(0))

\* a variant that fills what fits and drops the rest
tril_to_matrix_Truncating(tril) ==
    IF Len(tril.shape) # 1 THEN [r |-> <<>>, err |-> "AssertionError"]
    ELSE [r   |-> MirrorLower(PutLower(get_n_cols_by_tril(Numel(tril)),
                                       tril_indices(get_n_cols_by_tril(Numel(tril)),
                                                    get_n_cols_by_tril(Numel(tril))), tril)),
          err |-> ""]

\* tril_to_matrix(tril): the indexed assignment raises when the number of
\* values is neither the number of positions nor one
tril_to_matrix(tril) ==
    IF Len(tril.shape) # 1 THEN [r |-> <<>>, err |-> "AssertionError"]
    ELSE \* n_cols and the index list, bound once
         (LET Unpack(n_cols, idx) ==
                  IF Len(idx) # Numel(tril) /\ Numel(tril) # 1
                  THEN [r |-> <<>>, err |-> "RuntimeError"]
                  ELSE [r |-> MirrorLower(PutLower(n_cols, idx, tril)), err |-> ""]
              UnpackN(n_cols) == Unpack(n_cols, tril_indices(n_cols, n_cols))
          IN  UnpackN(get_n_cols_by_tril(Numel(tril))))

MaxTrilDim == 3
MaxTrilLen == 7

\* position of <<r, c>>, c <= r, in the row-major lower triangle
TrilPos(r, c) == (r * (r - 1)) \div 2 + c

\* the symmetric n x n matrices with entries 1 and 2
SymmetricMatrices(n) ==
    { Mat2(n, n, LAMBDA i, j : I(IF i >= j THEN f[TrilPos(i, j)] ELSE f[TrilPos(j, i)])) :
        f \in [1..TrilPos(n, n) -> {1, 2}] }

\* vectors of every length up to MaxTrilLen
TrilVectors ==
    { Tensor(<<len>>, [q \in 1..len |-> I(c * q)]) : len \in 0..MaxTrilLen, c \in {1, 2} }

InitTril ==
    /\ \E x \in (UNION {SymmetricMatrices(n) : n \in 1..MaxTrilDim}) \cup TrilVectors :
          reg = [x |-> x, orig |-> x, calls |-> <<>>]
    /\ heap = EmptyHeap
    /\ nops = 0
    /\ pc = "tril"
    /\ last = [op |-> "init", err |-> "", pre |-> <<>>]
    /\ DrvIdle

\* x = matrix_to_tril(x)
MatrixToTril ==
    /\ pc = "tril"
    /\ nops < MaxOps
    /\ \E o \in {matrix_to_tril(reg.x)} :
          /\ reg' = [reg EXCEPT !.x = IF o.err = "" THEN o.r ELSE @,
                                !.calls = Append(@, "matrix_to_tril")]
          /\ last' = [op |-> "matrix_to_tril", err |-> o.err, pre |-> reg.x]
          /\ pc' = IF o.err = "" THEN "tril" ELSE "raised"
    /\ nops' = nops + 1
    /\ UNCHANGED <<heap, drvVars>>

\* x = tril_to_matrix(x)
TrilToMatrix ==
    /\ pc = "tril"
    /\ nops < MaxOps
    /\ \E o \in {tril_to_matrix(reg.x)} :
          /\ reg' = [reg EXCEPT !.x = IF o.err = "" THEN o.r ELSE @,
                                !.calls = Append(@, "tril_to_matrix")]
          /\ last' = [op |-> "tril_to_matrix", err |-> o.err, pre |-> reg.x]
          /\ pc' = IF o.err = "" THEN "tril" ELSE "raised"
    /\ nops' = nops + 1
    /\ UNCHANGED <<heap, drvVars>>

NextTril ==
    \/ MatrixToTril
    \/ TrilToMatrix

SpecTril == InitTril /\ [][NextTril]_vars

IsTriangular(len) == \E n \in 0..len : n * (n + 1) = 2 * len

\* C14: for every symmetric n x n matrix M, n >= 1, matrix_to_tril(M) holds
\* the n(n+1)/2 entries of the lower triangle in row-major order, and
\* tril_to_matrix of it recovers n columns and gives back M: the strict lower
\* triangle is mirrored and the diagonal is not doubled.
C14_TrilRoundTrip ==
    (Len(reg.orig.shape) = 2 /\ IsSymmetric(reg.orig)) =>
        /\ (reg.calls = <<"matrix_to_tril">>) =>
              /\ last.err = ""
              /\ reg.x.shape = <<TrilPos(reg.orig.shape[1], reg.orig.shape[1])>>
              /\ \A r \in 1..reg.orig.shape[1] : \A c \in 1..r :
                    reg.x.data[TrilPos(r, c)] = At(reg.orig, r, c)
        /\ (reg.calls = <<"matrix_to_tril", "tril_to_matrix">>) =>
              /\ last.err = ""
              /\ reg.x.shape[2] = reg.orig.shape[1]
              /\ reg.x = reg.orig

C14_Witness ==
    /\ reg.calls = <<"matrix_to_tril", "tril_to_matrix">>
    /\ reg.orig.shape = <<3, 3>>
    /\ At(reg.orig, 2, 1) # At(reg.orig, 3, 1)
    /\ At(reg.orig, 3, 2) # At(reg.orig, 3, 3)
    /\ last.err = ""
    /\ reg.x = reg.orig

\* C15: tril_to_matrix(v) raises for every length of v that is not a
\* triangular number n(n+1)/2 and returns no matrix; for a triangular length
\* it returns a symmetric matrix with exactly n columns.
C15_UnpackRejectsOtherLengths ==
    (Len(reg.orig.shape) = 1 /\ reg.calls = <<"tril_to_matrix">>) =>
        IF IsTriangular(Numel(reg.orig))
        THEN /\ last.err = ""
             /\ Len(reg.x.shape) = 2
             /\ reg.x.shape[1] = reg.x.shape[2]
             /\ reg.x.shape[1] * (reg.x.shape[1] + 1) = 2 * Numel(reg.orig)
        ELSE /\ last.err # ""
             /\ pc = "raised"
             /\ reg.x = reg.orig

C15_Witness ==
    /\ Len(reg.orig.shape) = 1
    /\ reg.calls = <<"tril_to_matrix">>
    /\ Numel(reg.orig) \in {2, 4, 5, 7}
    /\ last.err = "RuntimeError"

(***************************************************************************)
(* One linear layer without bias, end to end: kron = Kron(A, B) with       *)
(* identity factors, kron.update_inv(damping), then kron.mvp on the        *)
(* all-ones weight gradient.                                               *)
(***************************************************************************)
MaxInDim  == 4
MaxOutDim == 3

\* damping values with an exact square root
Dampings == {Rat(1, 100), Rat(1, 4), I(1)}

Ones(dB, dA) == Mat2(dB, dA, LAMBDA i, j : I(1))

InitLayer ==
    /\ \E dA \in 1..MaxInDim, dB \in 1..MaxOutDim, damping \in Dampings :
          /\ heap = AllocT(AllocK(AllocT(AllocT(EmptyHeap, Eye(dA)), Eye(dB)), KronInit(1, 2)),
                           Ones(dB, dA))
          /\ reg = [kron |-> 1, weight |-> 3, bias |-> None, damping |-> damping]
    /\ nops = 0
    /\ pc = "layer"
    /\ last = [op |-> "init", use_inv |-> FALSE, inplace |-> FALSE, r |-> <<>>,
               err |-> "", pre |-> EmptyHeap]
    /\ DrvIdle

\* kron.update_inv(damping)
LayerUpdateInv ==
    /\ pc = "layer"
    /\ \E o \in {KronUpdateInv(heap, reg.kron, reg.damping)} :
          /\ heap' = o.h
          /\ last' = [op |-> "update_inv", use_inv |-> FALSE, inplace |-> FALSE,
                      r |-> <<>>, err |-> o.err, pre |-> heap]
    /\ pc' = "inverted"
    /\ UNCHANGED <<nops, reg, drvVars>>

\* kron.mvp(vec_weight = weight gradient, use_inv, inplace)
LayerMvp(use_inv, inplace) ==
    /\ pc \in {"layer", "inverted"}
    /\ \E o \in {KronMvp(heap, reg.kron, reg.weight, reg.bias, use_inv, inplace)} :
          /\ heap' = o.h
          /\ last' = [op |-> "mvp", use_inv |-> use_inv, inplace |-> inplace,
                      r |-> o.r, err |-> o.err, pre |-> heap]
    /\ pc' = "multiplied"
    /\ UNCHANGED <<nops, reg, drvVars>>

NextLayer ==
    \/ LayerUpdateInv
    \/ \E use_inv \in BOOLEAN, inplace \in BOOLEAN : LayerMvp(use_inv, inplace)

SpecLayer == InitLayer /\ [][NextLayer]_vars

\* the scenario of the claim: A the 4 x 4 and B the 3 x 3 identity, damping 0.01
Scenario ==
    /\ heap.T[heap.K[reg.kron].A] = Eye(4)
    /\ heap.T[heap.K[reg.kron].B] = Eye(3)
    /\ reg.damping = Rat(1, 100)

\* c * I, and the tensor of the shape of t with every entry c
ScaledEye(n, c) == Mat2(n, n, LAMBDA i, j : IF i = j THEN c ELSE I(0))
Filled(t, c) == Tensor(t.shape, [q \in 1..Numel(t) |-> c])

\* both inverses of the kron are c * I
InversesAre(c) ==
    /\ heap.K[reg.kron].A_inv # None
    /\ heap.K[reg.kron].B_inv # None
    /\ heap.T[heap.K[reg.kron].A_inv] = ScaledEye(heap.T[heap.K[reg.kron].A].shape[1], c)
    /\ heap.T[heap.K[reg.kron].B_inv] = ScaledEye(heap.T[heap.K[reg.kron].B].shape[1], c)

Inverted == pc = "inverted" /\ last.op = "update_inv"
MultipliedByInverse ==
    last.op = "mvp" /\ last.use_inv /\ last.pre.K[reg.kron].A_inv # None

\* C13 (as stated in the specification): in the scenario update_inv yields
\* A_inv = B_inv = (1 / 1.01) I, and mvp with use_inv on the all-ones weight
\* gradient yields 1 / 1.01^2 in every entry.
C13_AsStated_InverseByDamping ==
    Scenario =>
        /\ Inverted => last.err = "" /\ InversesAre(Rat(100, 101))
        /\ MultipliedByInverse =>
              /\ last.err = ""
              /\ last.r[1] = Filled(last.pre.T[reg.weight], Rat(10000, 10201))

\* C13 (amended): update_inv splits the damping into its square root per
\* factor, so for identity factors of any size and damping d it yields
\* A_inv = B_inv = I / (1 + sqrt(d)) and mvp with use_inv on the all-ones
\* weight gradient yields 1 / (1 + sqrt(d))^2 in every entry; in the scenario
\* (4 x 4 and 3 x 3, d = 0.01) that is (1 / 1.1) I and 1 / 1.21.
C13_InverseBySqrtDamping ==
    LET c == RDiv(I(1), RAdd(I(1), RSqrt(reg.damping)))
    IN  /\ Inverted => last.err = "" /\ InversesAre(c)
        /\ MultipliedByInverse =>
              /\ last.err = ""
              /\ last.r[1] = Filled(last.pre.T[reg.weight], RMul(c, c))
        /\ (Scenario /\ Inverted) => InversesAre(Rat(10, 11))
        /\ (Scenario /\ MultipliedByInverse) =>
              last.r[1] = Filled(last.pre.T[reg.weight], Rat(100, 121))

C13_Witness ==
    /\ Scenario
    /\ MultipliedByInverse
    /\ last.err = ""
    /\ last.r[1].shape = <<3, 4>>
    /\ last.pre.T[reg.weight] = Ones(3, 4)
    /\ last.r[1].data[1] = Rat(100, 121)

(***************************************************************************)
(* precondition/kbfgs.py: the secant kernels                               *)
(***************************************************************************)
Vec(data) == Tensor(<<Len(data)>>, data)

\* s.mul_(a).sub_(u, alpha = b), and y.add_(s, alpha = c)
VMulSub(s, a, u, b) == Vec([q \in 1..Numel(s) |-> RSub(RMul(s.data[q], a), RMul(b, u.data[q]))])
VAddScaled(y, s, c) == Vec([q \in 1..Numel(y) |-> RAdd(y.data[q], RMul(c, s.data[q]))])

\* powell_lm_damping_(H, s, y, mu1, mu2): the pair (s, y) after the call
powell_lm_damping_(H, s, y, mu1, mu2) ==
    IF ~(RLt(I(0), mu1) /\ RLt(mu1, I(1))) \/ ~RLt(I(0), mu2)
    THEN [s |-> s, y |-> y, err |-> "AssertionError"]
    ELSE LET Hy    == Mv(H, y)
             ytHy  == Dot(y, Hy)
             sty   == Dot(s, y)
             theta == IF RLt(sty, RMul(mu1, ytHy))
                      THEN RDiv(RMul(RSub(I(1), mu1), ytHy), RSub(ytHy, sty))
                      ELSE I(1)
             s1    == VMulSub(s, theta, Hy, RSub(I(1), theta))
         IN  [s |-> s1, y |-> VAddScaled(y, s1, mu2), err |-> ""]

\* a bfgs_inv_update_ that returns, having subtracted H y s^T / (s^T y) only
bfgs_inv_update_OneSided(H, s, y) ==
    IF Len(H.shape) # 2 THEN [H |-> H, err |-> "AssertionError"]
    ELSE IF H.shape[1] # H.shape[2] /\ H.shape[1] # 1 /\ H.shape[2] # 1
         THEN [H |-> H, err |-> "RuntimeError"]
    ELSE IF ~IsSymmetric(H) THEN [H |-> H, err |-> "AssertionError"]
    ELSE IF Len(s.shape) # 1 \/ s.shape[1] # H.shape[1] THEN [H |-> H, err |-> "AssertionError"]
    ELSE IF Len(y.shape) # 1 \/ y.shape[1] # H.shape[1] THEN [H |-> H, err |-> "AssertionError"]
    ELSE [H |-> Mat2(H.shape[1], H.shape[1],
                     LAMBDA i, j : RSub(At(H, i, j),
                                        RDiv(RMul(Mv(H, y).data[i], s.data[j]), Dot(s, y)))),
          err |-> ""]

\* bfgs_inv_update_(H, s, y): H after the call. The first term is computed as
\* (sty + ytHy) @ sst, a matrix product whose left operand is the 0-dim
\* tensor torch.dot returns: torch.matmul rejects it ("both arguments to
\* matmul need to be at least 1D") before H.add_ runs, so H is unchanged.
bfgs_inv_update_(H, s, y) ==
    IF Len(H.shape) # 2 THEN [H |-> H, err |-> "AssertionError"]
    ELSE IF H.shape[1] # H.shape[2] /\ H.shape[1] # 1 /\ H.shape[2] # 1
         THEN [H |-> H, err |-> "RuntimeError"]
    ELSE IF ~IsSymmetric(H) THEN [H |-> H, err |-> "AssertionError"]
    ELSE IF Len(s.shape) # 1 \/ s.shape[1] # H.shape[1] THEN [H |-> H, err |-> "AssertionError"]
    ELSE IF Len(y.shape) # 1 \/ y.shape[1] # H.shape[1] THEN [H |-> H, err |-> "AssertionError"]
    ELSE [H |-> H, err |-> "RuntimeError"]

(***************************************************************************)
(* The secant kernels on their own: a caller holds H, s and y, may damp    *)
(* the pair with powell_lm_damping_ and then calls bfgs_inv_update_, in    *)
(* the order _update_B_inv uses them.                                      *)
(***************************************************************************)
MaxDimH == 2

\* symmetric H: the identity, a positive definite one and an indefinite one
SecantH(n) == {Eye(n), FactorPD(n), FactorMixed(n)}

\* the values of mu1 (the second violates the assertion 0 < mu1 < 1) and mu2
SecantMu1 == {Rat(1, 5), I(1)}
SecantMu2 == {Rat(1, 4), I(1)}

InitSecant ==
    /\ \E n \in 1..MaxDimH :
          \E H \in SecantH(n), s \in Vectors(n), y \in Vectors(n),
             mu1 \in SecantMu1, mu2 \in SecantMu2 :
             reg = [H |-> H, s |-> Vec(s), y |-> Vec(y), mu1 |-> mu1, mu2 |-> mu2]
    /\ heap = EmptyHeap
    /\ nops = 0
    /\ pc = "secant"
    /\ last = [op |-> "init", err |-> "", pre |-> <<>>]
    /\ DrvIdle

\* powell_lm_damping_(H, s, y, mu1, mu2) on the caller's tensors
SecantDamp ==
    /\ pc = "secant"
    /\ \E o \in {powell_lm_damping_(reg.H, reg.s, reg.y, reg.mu1, reg.mu2)} :
          /\ reg' = [reg EXCEPT !.s = o.s, !.y = o.y]
          /\ last' = [op |-> "powell_lm_damping_", err |-> o.err, pre |-> reg]
          /\ pc' = IF o.err = "" THEN "damped" ELSE "raised"
    /\ UNCHANGED <<heap, nops, drvVars>>

\* bfgs_inv_update_(H, s, y) on the caller's tensors
SecantUpdate ==
    /\ pc \in {"secant", "damped"}
    /\ \E o \in {bfgs_inv_update_(reg.H, reg.s, reg.y)} :
          /\ reg' = [reg EXCEPT !.H = o.H]
          /\ last' = [op |-> "bfgs_inv_update_", err |-> o.err, pre |-> reg]
          /\ pc' = IF o.err = "" THEN "updated" ELSE "raised"
    /\ UNCHANGED <<heap, nops, drvVars>>

NextSecant ==
    \/ SecantDamp
    \/ SecantUpdate

SpecSecant == InitSecant /\ [][NextSecant]_vars

\* H + (s^T y + y^T H y) (s s^T) / (s^T y)^2 - (H y s^T + s y^T H) / (s^T y)
ShermanMorrison(H, s, y) ==
    Mat2(H.shape[1], H.shape[1],
         LAMBDA i, j :
            RSub(RAdd(At(H, i, j),
                      RDiv(RMul(RAdd(Dot(s, y), Dot(y, Mv(H, y))), RMul(s.data[i], s.data[j])),
                           RMul(Dot(s, y), Dot(s, y)))),
                 RDiv(RAdd(RMul(Mv(H, y).data[i], s.data[j]), RMul(s.data[i], Mv(H, y).data[j])),
                      Dot(s, y))))

\* C11 (as stated in the specification): for symmetric H and s, y with
\* s^T y # 0, bfgs_inv_update_ returns with H replaced by the Sherman-Morrison
\* form H + (s^T y + y^T H y) s s^T / (s^T y)^2 - (H y s^T + s y^T H) / (s^T y),
\* which satisfies the secant equation H_new y = s.
C11_AsStated_SecantEquation ==
    (/\ last.op = "bfgs_inv_update_"
     /\ IsSymmetric(last.pre.H)
     /\ Dot(last.pre.s, last.pre.y) # I(0))
    => /\ last.err = ""
       /\ reg.H = ShermanMorrison(last.pre.H, last.pre.s, last.pre.y)
       /\ Mv(reg.H, last.pre.y) = last.pre.s

RLe(x, y) == x = y \/ RLt(x, y)

\* y^T H y of the pair as it was before the last call
OldYtHy == Dot(last.pre.y, Mv(last.pre.H, last.pre.y))

\* the last call was powell_lm_damping_ on a positive definite H and returned
Damped ==
    /\ last.op = "powell_lm_damping_"
    /\ last.err = ""
    /\ \E n \in 1..MaxDimH : last.pre.H \in {Eye(n), FactorPD(n)}

\* the call took the damping branch: s^T y < mu1 * y^T H y
DampingBranch == RLt(Dot(last.pre.s, last.pre.y), RMul(last.pre.mu1, OldYtHy))

\* C12 (as stated in the specification): after powell_lm_damping_ on a
\* positive definite H with 0 < mu1 < 1 and mu2 > 0, the corrected pair has
\* s'^T y' >= mu1 * y^T H y (y^T H y of the original y), and in the damping
\* branch the replaced s has s'^T y >= mu1 * y^T H y > 0 for the original y.
C12_AsStated_PowellBound ==
    Damped =>
        /\ RLe(RMul(last.pre.mu1, OldYtHy), Dot(reg.s, reg.y))
        /\ DampingBranch =>
              /\ RLe(RMul(last.pre.mu1, OldYtHy), Dot(reg.s, last.pre.y))
              /\ RLt(I(0), RMul(last.pre.mu1, OldYtHy))

(***************************************************************************)
(* The K-BFGS gradient maker. The base class PreconditionedGradientMaker,  *)
(* the statistics context (core, operations) and utils are outside the     *)
(* sources at hand; their parts follow the specification: an external      *)
(* schedule selects the estimate steps, the step counter advances when a   *)
(* step call returns, the context provides per layer the covariance of the *)
(* mean inputs and the mean inputs, outputs and out-gradients. An          *)
(* exception that leaves a call of the gradient maker ends the run.        *)
(* The eligible modules are nn.Linear layers with trainable parameters.    *)
(***************************************************************************)
MaxStep   == 3
MaxLayers == 2

Batches == {"x1", "x2"}
BatchValue(b) == IF b = "x1" THEN 1 ELSE 2

\* KronBfgsGradientConfig
Cfg == [data_size |-> I(1), damping |-> Rat(1, 4), ema_decay |-> Rat(1, 10), mu1 |-> Rat(1, 5)]

\* utils.cholesky_inv(X, damping): the inverse of X + damping * I
cholesky_inv_damped(X, damping) == cholesky_inv(add_value_to_diagonal(X, damping))

\* the statistics of module m (a layer record L) for the forward/backward of
\* batch b with the parameters as they are after `version` optimizer updates
InDim(L) == IF L.bias THEN L.in + 1 ELSE L.in

cov_kron_A(L, m, b, version) ==
    Mat2(InDim(L), InDim(L),
         LAMBDA i, j : IF i = j THEN I(2 * (m + BatchValue(b)) + version) ELSE I(1))
cov_kron_B(L, m, b, version) ==
    Mat2(L.out, L.out, LAMBDA i, j : IF i = j THEN I(2 * (m + BatchValue(b)) + version) ELSE I(1))
mean_in_data(L, m, b, version) == Vec([q \in 1..InDim(L) |-> I(BatchValue(b) + q)])
spatial_mean_out_data(L, m, b, version) ==
    Vec([q \in 1..L.out |-> I(m * BatchValue(b) + q * version)])
spatial_mean_out_grads(L, m, b, version) ==
    Vec([q \in 1..L.out |-> I(BatchValue(b) + 2 * q * version - m)])
bfgs_kron_s(L, m, b, version)  == Vec([q \in 1..InDim(L) |-> I(q + version)])
bfgs_kron_As(L, m, b, version) == Vec([q \in 1..InDim(L) |-> I(2 * q + BatchValue(b))])
weight_grad(L, m, b, version) ==
    Mat2(L.out, L.in, LAMBDA i, j : I(m + 2 * i + j + BatchValue(b) + version))
bias_grad(L, m, b, version) == Vec([q \in 1..L.out |-> I(q - m - BatchValue(b) - version)])

\* KronBfgsGradientMaker._get_damping for an nn.Linear module
get_damping == RSqrt(Cfg.damping)

\* a layer record: an nn.Linear module of the model with its attributes
Layer(out, in, bias) ==
    [out |-> out, in |-> in, bias |-> bias, wgrad |-> None, bgrad |-> None,
     bfgs |-> None, mean_outputs |-> <<>>, mean_outgrads |-> <<>>]

\* cxt.cov_symmatrix(module, pop=True): a new SymMatrix with the Kronecker
\* covariance; the output-side factor is there if the context has it already
cov_symmatrix(h, L, m, b, version) ==
    LET h1 == AllocT(h, cov_kron_A(L, m, b, version))
        h2 == IF config.cov_has_B THEN AllocT(h1, cov_kron_B(L, m, b, version)) ELSE h1
        h3 == AllocK(h2, KronInit(NextT(h), IF config.cov_has_B THEN NextT(h1) ELSE None))
    IN  Out(AllocS(h3, SymInit(None, NextK(h2), None, None)), NextS(h3), "")

\* _update_A_inv, lines 125-127: the exponential moving average of A
EmaOfA(h, bfgs, new_bfgs) ==
    LET o1 == SymMul(h, new_bfgs, Cfg.ema_decay)
        o2 == SymMul(o1.h, bfgs, RSub(I(1), Cfg.ema_decay))
    IN  IF o1.err # "" THEN Out(o1.h, bfgs, o1.err)
        ELSE IF o2.err # "" THEN Out(o2.h, bfgs, o2.err)
        ELSE Out(SymIAdd(o2.h, bfgs, new_bfgs), bfgs, "")

\* _update_A_inv, lines 134-136: H = bfgs.kron.A_inv; bfgs_inv_update_(H, s, y)
UpdateH_A(h, bfgs, s, y) ==
    IF bfgs = None THEN Out(h, bfgs, "AssertionError")
    ELSE IF h.S[bfgs].kron = None THEN Out(h, bfgs, "AttributeError")
    ELSE IF h.K[h.S[bfgs].kron].A_inv = None THEN Out(h, bfgs, "AttributeError")
    ELSE LET H == h.K[h.S[bfgs].kron].A_inv
             u == bfgs_inv_update_(h.T[H], s, y)
         IN  Out([h EXCEPT !.T[H] = u.H], bfgs, u.err)

\* _update_A_inv, lines 131-136, once bfgs.kron.A_inv is there
SecantOfA(h, bfgs, mean_in, damping) ==
    LET k     == h.S[bfgs].kron
        A     == h.T[h.K[k].A]
        A_inv == h.T[h.K[k].A_inv]
        s     == Mv(A_inv, mean_in)
    IN  IF Len(A_inv.shape) # 2 \/ A_inv.shape[2] # Numel(mean_in) \/ A.shape[2] # A_inv.shape[1]
        THEN Out(h, bfgs, "RuntimeError")
        ELSE UpdateH_A(h, bfgs, s, VAddScaled(Mv(A, s), s, damping))

\* _update_A_inv, lines 128-130: A_inv = cholesky_inv(A, damping) if it is None
EnsureA_inv(h, bfgs, A_inv) ==
    IF h.K[h.S[bfgs].kron].A_inv # None THEN Out(h, bfgs, "")
    ELSE IF IsFailure(A_inv) THEN Out(h, bfgs, "NumericalError")
    ELSE Out([AllocT(h, A_inv) EXCEPT !.K[h.S[bfgs].kron].A_inv = NextT(h)], bfgs, "")

CovSecant(o, mean_in, damping) ==
    IF o.err # "" THEN o ELSE SecantOfA(o.h, o.r, mean_in, damping)

CovBranch(o, mean_in, damping) ==
    IF o.err # "" THEN o
    ELSE IF o.h.S[o.r].kron = None THEN Out(o.h, o.r, "AttributeError")
    ELSE IF o.h.K[o.h.S[o.r].kron].A = None THEN Out(o.h, o.r, "TypeError")
    ELSE CovSecant(EnsureA_inv(o.h, o.r,
                               cholesky_inv_damped(o.h.T[o.h.K[o.h.S[o.r].kron].A], damping)),
                   mean_in, damping)

\* lines 119-127: new_bfgs scaled by 1 / data_size is the module's bfgs, or
\* is blended into the bfgs the module has
BlendCov(o, bfgs) ==
    IF o.err # "" THEN Out(o.h, bfgs, o.err)
    ELSE IF bfgs = None THEN o
    ELSE EmaOfA(o.h, bfgs, o.r)

ScaledCov(o) == SymMul(o.h, o.r, RDiv(I(1), Cfg.data_size))

\* the body of the loop of _update_A_inv for module m: the heap, the bfgs
\* attribute of the module and the exception raised, if any
update_A_inv_module(h, L, m, b, version) ==
    IF config.minibatch_hessian_action /\ A_inv_exists
    THEN UpdateH_A(h, L.bfgs, bfgs_kron_s(L, m, b, version),
                   VAddScaled(bfgs_kron_As(L, m, b, version),
                              bfgs_kron_s(L, m, b, version), get_damping))
    ELSE CovBranch(BlendCov(ScaledCov(cov_symmatrix(h, L, m, b, version)), L.bfgs),
                   mean_in_data(L, m, b, version), get_damping)

\* the state a loop over the modules carries: heap, layers, exception
Walk(h, ls, err) == [h |-> h, layers |-> ls, err |-> err]

SetBfgs(w, m, o) == Walk(o.h, [w.layers EXCEPT ![m].bfgs = o.r], o.err)

\* _update_A_inv(cxt): the loop over self.modules from module m on
RECURSIVE update_A_inv(_, _, _, _)
update_A_inv(w, m, b, version) ==
    IF w.err # "" \/ m > Len(w.layers) THEN w
    ELSE update_A_inv(SetBfgs(w, m, update_A_inv_module(w.h, w.layers[m], m, b, version)),
                      m + 1, b, version)

\* _store_mean(cxt, is_forward)
store_mean(ls, is_forward, b, version) ==
    [m \in 1..Len(ls) |->
        IF is_forward
        THEN [ls[m] EXCEPT !.mean_outputs = <<spatial_mean_out_data(ls[m], m, b, version)>>]
        ELSE [ls[m] EXCEPT !.mean_outgrads = <<spatial_mean_out_grads(ls[m], m, b, version)>>]]

\* self._loss.backward(): every module's weight.grad and bias.grad
RECURSIVE backward(_, _, _, _)
backward(w, m, b, version) ==
    IF m > Len(w.layers) THEN w
    ELSE LET L  == w.layers[m]
             h1 == IF L.wgrad = None THEN AllocT(w.h, weight_grad(L, m, b, version))
                   ELSE [w.h EXCEPT !.T[L.wgrad] = weight_grad(L, m, b, version)]
             wg == IF L.wgrad = None THEN NextT(w.h) ELSE L.wgrad
             h2 == IF ~L.bias THEN h1
                   ELSE IF L.bgrad = None THEN AllocT(h1, bias_grad(L, m, b, version))
                   ELSE [h1 EXCEPT !.T[L.bgrad] = bias_grad(L, m, b, version)]
             bg == IF ~L.bias THEN None ELSE IF L.bgrad = None THEN NextT(h1) ELSE L.bgrad
         IN  backward(Walk(h2, [w.layers EXCEPT ![m].wgrad = wg, ![m].bgrad = bg], ""),
                      m + 1, b, version)

\* _update_B_inv, lines 154-161 for a module with bfgs.kron = k
SecantOfB(h, k, s, y, damping) ==
    LET h1 == IF h.K[k].B_inv = None
              THEN [AllocT(h, Eye(Numel(s))) EXCEPT !.K[k].B_inv = NextT(h)]
              ELSE h
        H  == h1.K[k].B_inv
        p  == powell_lm_damping_(h1.T[H], s, y, Cfg.mu1, damping)
        u  == bfgs_inv_update_(h1.T[H], p.s, p.y)
    IN  IF Len(h1.T[H].shape) # 2 \/ h1.T[H].shape[2] # Numel(y) THEN Out(h1, None, "RuntimeError")
        ELSE IF p.err # "" THEN Out(h1, None, p.err)
        ELSE Out([h1 EXCEPT !.T[H] = u.H], None, u.err)

\* the body of the loop of _update_B_inv for module m
update_B_inv_module(h, L, m, b, version) ==
    IF L.bfgs = None THEN Out(h, None, "AttributeError")
    ELSE IF L.mean_outputs = <<>> \/ L.mean_outgrads = <<>> THEN Out(h, None, "AttributeError")
    ELSE IF h.S[L.bfgs].kron = None THEN Out(h, None, "AttributeError")
    ELSE SecantOfB(h, h.S[L.bfgs].kron,
                   TSub(spatial_mean_out_data(L, m, b, version), L.mean_outputs[1]),
                   TSub(spatial_mean_out_grads(L, m, b, version), L.mean_outgrads[1]),
                   get_damping)

KeepLayers(w, o) == Walk(o.h, w.layers, o.err)

\* _update_B_inv(cxt): the loop over self.modules from module m on
RECURSIVE update_B_inv(_, _, _, _)
update_B_inv(w, m, b, version) ==
    IF w.err # "" \/ m > Len(w.layers) THEN w
    ELSE update_B_inv(KeepLayers(w, update_B_inv_module(w.h, w.layers[m], m, b, version)),
                      m + 1, b, version)

\* precondition(vec_weight, vec_bias), lines 86-94: the loop from module m
\* on; vw and vb are the local variables vec_weight and vec_bias
RECURSIVE precondition(_, _, _, _)
precondition(w, m, vw, vb) ==
    IF w.err # "" \/ m > Len(w.layers) THEN w
    ELSE LET L   == w.layers[m]
             vw1 == IF vw = None THEN L.wgrad ELSE vw
             vb1 == IF L.bias THEN L.bgrad ELSE vb
         IN  IF L.bfgs = None THEN Walk(w.h, w.layers, "AttributeError")
             ELSE IF vw1 = None THEN Walk(w.h, w.layers, "AssertionError")
             ELSE IF L.bias /\ vb1 = None THEN Walk(w.h, w.layers, "AssertionError")
             ELSE IF w.h.S[L.bfgs].kron = None THEN Walk(w.h, w.layers, "AttributeError")
             ELSE precondition(KeepLayers(w, KronMvp(w.h, w.h.S[L.bfgs].kron, vw1, vb1, TRUE, TRUE)),
                               m + 1, vw1, vb1)

\* the external update schedule
do_update_preconditioner(t) == sched[t]

\* _record_model_args_kwargs, _restore_last_model_args_kwargs and
\* _restore_curr_model_args_kwargs
record_model_args_kwargs(a) ==
    [a EXCEPT !.last_model_args = a.model_args, !.last_model_kwargs = a.model_kwargs]

\* a _restore_last_model_args_kwargs that saves the current arguments but
\* does not put the recorded ones in their place
restore_last_KeepsCurrent(a) ==
    [a EXCEPT !.curr_model_args = a.model_args, !.curr_model_kwargs = a.model_kwargs]

restore_last_model_args_kwargs(a) ==
    [a EXCEPT !.curr_model_args = a.model_args, !.curr_model_kwargs = a.model_kwargs,
              !.model_args = a.last_model_args, !.model_kwargs = a.last_model_kwargs]

restore_curr_model_args_kwargs(a) ==
    [a EXCEPT !.model_args = a.curr_model_args, !.model_kwargs = a.curr_model_kwargs]

\* one entry of the history: a phase, the step it ran in, the arguments its
\* forward was called with, what the caller supplied for the step, and
\* whether the phase ran to its end
Phase(kind, a, err) ==
    [kind |-> kind, step |-> step, args |-> a.model_args, kwargs |-> a.model_kwargs,
     supplied |-> caller, done |-> err = ""]

\* the model called without its input raises
ForwardFails(a) == a.model_args = <<>>

BatchOf(a) == a.model_args[1]

\* a module that comes with a bfgs matrix whose inverses are in place
WithBfgs(h, L, m) ==
    LET h1 == AllocT(h, TScale(FactorPD(InDim(L)), I(m)))
        h2 == AllocT(h1, TScale(FactorPD(L.out), I(m)))
        h3 == AllocK(h2, KronInit(NextT(h), NextT(h1)))
        h4 == AllocS(h3, SymInit(None, NextK(h2), None, None))
    IN  Out(KronUpdateInv(h4, NextK(h2), I(1)).h, NextS(h3), "")

RECURSIVE AttachBfgs(_, _)
AttachBfgs(w, m) ==
    IF m > Len(w.layers) THEN w
    ELSE AttachBfgs(SetBfgs(w, m, WithBfgs(w.h, w.layers[m], m)), m + 1)

LayerKinds == {Layer(2, 1, TRUE), Layer(2, 1, FALSE)}

Models == UNION {[1..n -> LayerKinds] : n \in 0..MaxLayers}

\* KronBfgsGradientMaker(model, config) for a model, an update schedule and
\* a configuration
Init ==
    /\ \E ls \in Models, attached \in BOOLEAN :
          /\ attached => ls # <<>>
          /\ LET w == IF attached THEN AttachBfgs(Walk(EmptyHeap, ls, ""), 1)
                      ELSE Walk(EmptyHeap, ls, "")
             IN  heap = w.h /\ layers = w.layers
    /\ sched \in [0..(MaxStep - 1) -> BOOLEAN]
    /\ config \in [minibatch_hessian_action : BOOLEAN, cov_has_B : BOOLEAN]
    /\ margs = [model_args |-> <<>>, model_kwargs |-> <<>>,
                last_model_args |-> <<>>, last_model_kwargs |-> <<>>,
                curr_model_args |-> <<>>, curr_model_kwargs |-> <<>>]
    /\ A_inv_exists = FALSE
    /\ step = 0
    /\ caller = "none"
    /\ log = <<>>
    /\ pc = "ready"
    /\ nops = 0
    /\ reg = <<>>
    /\ last = [op |-> "init", err |-> "", pre |-> EmptyHeap, layers |-> <<>>]

\* setup_model_call(model, x, y = x) of the base class, which starts a step
SetupModelCall(b) ==
    /\ pc \in {"ready", "preconditioned"}
    /\ step < MaxStep
    /\ margs' = [margs EXCEPT !.model_args = <<b>>, !.model_kwargs = [y |-> b]]
    /\ caller' = b
    /\ pc' = "startup"
    /\ UNCHANGED <<heap, nops, reg, last, layers, step, sched, A_inv_exists, config, log>>

\* _post_preconditioner_update(): the apply phase
PostPreconditionerUpdate ==
    LET a  == restore_last_model_args_kwargs(margs)
        w  == IF ForwardFails(a) THEN Walk(heap, layers, "TypeError")
              ELSE update_B_inv(backward(Walk(heap, layers, ""), 1, BatchOf(a), step),
                                1, BatchOf(a), step)
    IN  /\ heap' = w.h
        /\ layers' = w.layers
        /\ log' = Append(log, Phase("apply", a, w.err))
        /\ margs' = IF w.err = "" THEN restore_curr_model_args_kwargs(a) ELSE a
        /\ pc' = IF w.err = "" THEN "main" ELSE "raised"

\* a _startup that runs the apply phase on every step after the first
Startup_EveryStep ==
    /\ pc = "startup"
    /\ IF step > 0
       THEN PostPreconditionerUpdate
       ELSE /\ pc' = "main"
            /\ UNCHANGED <<heap, layers, log, margs>>
    /\ UNCHANGED <<nops, reg, last, step, sched, A_inv_exists, config, caller>>

\* a _startup that asks the schedule about the current step
Startup_SameStep ==
    /\ pc = "startup"
    /\ IF step > 0 /\ do_update_preconditioner(step)
       THEN PostPreconditionerUpdate
       ELSE /\ pc' = "main"
            /\ UNCHANGED <<heap, layers, log, margs>>
    /\ UNCHANGED <<nops, reg, last, step, sched, A_inv_exists, config, caller>>

\* _startup()
Startup ==
    /\ pc = "startup"
    /\ IF step > 0 /\ do_update_preconditioner(step - 1)
       THEN PostPreconditionerUpdate
       ELSE /\ pc' = "main"
            /\ UNCHANGED <<heap, layers, log, margs>>
    /\ UNCHANGED <<nops, reg, last, step, sched, A_inv_exists, config, caller>>

\* update_preconditioner(): the estimate phase, then the end of the step
UpdatePreconditioner ==
    /\ pc = "main"
    /\ do_update_preconditioner(step)
    /\ \E wa \in {IF ForwardFails(margs) THEN Walk(heap, layers, "TypeError")
                  ELSE update_A_inv(Walk(heap, layers, ""), 1, BatchOf(margs), step)} :
          IF wa.err # ""
          THEN /\ heap' = wa.h
               /\ layers' = wa.layers
               /\ log' = Append(log, Phase("estimate", margs, wa.err))
               /\ pc' = "raised"
               /\ UNCHANGED <<A_inv_exists, margs, step>>
          ELSE \E wb \in {backward(Walk(wa.h, store_mean(wa.layers, TRUE, BatchOf(margs), step), ""),
                                    1, BatchOf(margs), step)} :
                  /\ heap' = wb.h
                  /\ layers' = store_mean(wb.layers, FALSE, BatchOf(margs), step)
                  /\ A_inv_exists' = TRUE
                  /\ log' = Append(log, Phase("estimate", margs, ""))
                  /\ margs' = record_model_args_kwargs(margs)
                  /\ step' = step + 1
                  /\ pc' = "ready"
    /\ UNCHANGED <<nops, reg, last, sched, config, caller>>

\* forward and backward of a step without an estimate, then the end of the step
ForwardAndBackward ==
    /\ pc = "main"
    /\ ~do_update_preconditioner(step)
    /\ LET w == IF ForwardFails(margs) THEN Walk(heap, layers, "TypeError")
                ELSE backward(Walk(heap, layers, ""), 1, BatchOf(margs), step)
       IN  /\ heap' = w.h
           /\ layers' = w.layers
           /\ log' = Append(log, Phase("forward", margs, w.err))
           /\ step' = IF w.err = "" THEN step + 1 ELSE step
           /\ pc' = IF w.err = "" THEN "ready" ELSE "raised"
    /\ UNCHANGED <<nops, reg, last, sched, margs, A_inv_exists, config, caller>>

\* precondition() called without explicit vectors
Precondition ==
    /\ pc = "ready"
    /\ LET w == precondition(Walk(heap, layers, ""), 1, None, None)
       IN  /\ heap' = w.h
           /\ last' = [op |-> "precondition", err |-> w.err, pre |-> heap, layers |-> layers]
           /\ pc' = IF w.err = "" THEN "preconditioned" ELSE "raised"
    /\ UNCHANGED <<nops, reg, layers, step, sched, margs, A_inv_exists, config, caller, log>>

Next ==
    \/ \E b \in Batches : SetupModelCall(b)
    \/ Startup
    \/ UpdatePreconditioner
    \/ ForwardAndBackward
    \/ Precondition

Spec == Init /\ [][Next]_vars

\* the estimate and apply phases of the history, in order
TwoPhases == SelectSeq(log, LAMBDA e : e.kind \in {"estimate", "apply"})

\* the two-state machine of the maintainer, read off the history
MakerState ==
    IF TwoPhases # <<>> /\ TwoPhases[Len(TwoPhases)].kind = "estimate"
    THEN "AwaitingApply" ELSE "AwaitingEstimate"

\* C2: for every schedule and every number of steps the estimate and apply
\* phases alternate, starting with an estimate: an apply phase runs only
\* after an estimate phase that no apply phase has followed yet, an estimate
\* phase starts only when every earlier estimate has had its apply phase, and
\* a phase starts only after the phase before it has run to its end.
C2_PhasesAlternate ==
    /\ \A i \in DOMAIN TwoPhases :
          /\ TwoPhases[i].kind = (IF i % 2 = 1 THEN "estimate" ELSE "apply")
          /\ i < Len(TwoPhases) => TwoPhases[i].done
    /\ pc = "startup" /\ step > 0 /\ do_update_preconditioner(step - 1)
          => MakerState = "AwaitingApply"
    /\ pc = "main" => MakerState = "AwaitingEstimate"

\* an estimate, its apply phase, and the next estimate two steps later
C2_Witness ==
    /\ Len(TwoPhases) >= 3
    /\ TwoPhases[1].kind = "estimate" /\ TwoPhases[1].done
    /\ TwoPhases[2].kind = "apply" /\ TwoPhases[2].done
    /\ TwoPhases[3].kind = "estimate" /\ TwoPhases[3].done
    /\ TwoPhases[3].step = TwoPhases[1].step + 2

\* the index of the last estimate phase before entry i of the history (0 if none)
EstimateBefore(i) ==
    IF \E j \in 1..(i - 1) : log[j].kind = "estimate"
    THEN CHOOSE j \in 1..(i - 1) :
            /\ log[j].kind = "estimate"
            /\ \A k \in (j + 1)..(i - 1) : log[k].kind # "estimate"
    ELSE 0

\* C3: every apply phase calls forward with exactly the arguments recorded
\* at the end of the estimate phase before it, which are the ones the caller
\* supplied for that estimate's step and not those of the current step; when
\* the apply phase has finished the current model arguments are again the
\* ones the caller supplied for the current step, and the forward of the
\* step's own estimate or plain pass uses them.
C3_ApplyUsesRecordedArgs ==
    /\ \A i \in DOMAIN log :
          IF log[i].kind = "apply"
          THEN /\ EstimateBefore(i) # 0
               /\ log[EstimateBefore(i)].done
               /\ log[i].args = log[EstimateBefore(i)].args
               /\ log[i].kwargs = log[EstimateBefore(i)].kwargs
               /\ log[i].args = <<log[EstimateBefore(i)].supplied>>
          ELSE /\ log[i].args = <<log[i].supplied>>
               /\ log[i].kwargs = [y |-> log[i].supplied]
    /\ pc = "main" =>
          /\ margs.model_args = <<caller>>
          /\ margs.model_kwargs = [y |-> caller]

\* an apply phase that ran on the recorded arguments while the caller had
\* supplied different ones, followed by the step's estimate on the caller's
C3_Witness ==
    \E i \in DOMAIN log :
        /\ i > 1 /\ i < Len(log)
        /\ log[i].kind = "apply" /\ log[i].done
        /\ log[i].args # <<log[i].supplied>>
        /\ log[i].args = log[i - 1].args
        /\ log[i + 1].kind = "estimate"
        /\ log[i + 1].step = log[i].step
        /\ log[i + 1].args = <<log[i].supplied>>

\* C4 (as stated in the specification): an apply phase is executed on a step
\* only if an estimate phase is executed next on that same step.
C4_AsStated_ApplyOnlyBeforeEstimate ==
    \A i \in DOMAIN log :
        (log[i].kind = "apply" /\ i < Len(log)) =>
            /\ log[i + 1].kind = "estimate"
            /\ log[i + 1].step = log[i].step

\* C4 (amended): the apply phase is executed at the start of step t exactly
\* when t > 0 and the schedule selected step t - 1 for an estimate; it
\* directly follows that estimate in the history, and it is followed on step
\* t by an estimate if the schedule selects t and by a plain forward and
\* backward otherwise.
C4_ApplyFollowsEstimateStep ==
    \A i \in DOMAIN log :
        /\ log[i].kind = "apply" =>
              /\ log[i].step > 0
              /\ do_update_preconditioner(log[i].step - 1)
              /\ i > 1
              /\ log[i - 1].kind = "estimate"
              /\ log[i - 1].step = log[i].step - 1
              /\ i < Len(log) =>
                    /\ log[i + 1].step = log[i].step
                    /\ log[i + 1].kind =
                          (IF do_update_preconditioner(log[i].step) THEN "estimate" ELSE "forward")
        /\ (log[i].kind # "apply" /\ log[i].step > 0 /\ do_update_preconditioner(log[i].step - 1)) =>
              /\ i > 1
              /\ log[i - 1].kind = "apply"
              /\ log[i - 1].step = log[i].step

\* an apply phase on a step whose own pass is a plain forward and backward
C4_Witness ==
    \E i \in DOMAIN log :
        /\ i < Len(log)
        /\ log[i].kind = "apply" /\ log[i].done
        /\ log[i + 1].kind = "forward" /\ log[i + 1].done
        /\ log[i + 1].step = log[i].step

\* the matrix [weight gradient | bias gradient] of module m in heap h
GradMatrix(h, L) ==
    Mat2(L.out, InDim(L),
         LAMBDA i, j : IF j <= L.in THEN h.T[L.wgrad].data[(i - 1) * L.in + j]
                       ELSE h.T[L.bgrad].data[i])

\* every module has its gradients and a bfgs matrix with both inverses
ReadyToPrecondition(h, ls) ==
    \A m \in DOMAIN ls :
        /\ ls[m].wgrad # None
        /\ ls[m].bias => ls[m].bgrad # None
        /\ ls[m].bfgs # None
        /\ h.S[ls[m].bfgs].kron # None
        /\ h.K[h.S[ls[m].bfgs].kron].A_inv # None
        /\ h.K[h.S[ls[m].bfgs].kron].B_inv # None

\* precondition() is the call that has just returned or raised
JustPreconditioned == last.op = "precondition" /\ (pc = "preconditioned" \/ last.err # "")

\* C1 (as stated in the specification): precondition() without explicit
\* vectors transforms, for every eligible layer, that layer's own weight
\* gradient (and bias gradient) in place into B_inv * G * A_inv with that
\* layer's own inverse factors; no layer's matrix is applied to another
\* layer's gradient and no layer's gradient is left untransformed.
C1_AsStated_EachLayerOwnGradient ==
    (JustPreconditioned /\ ReadyToPrecondition(last.pre, last.layers)) =>
        /\ last.err = ""
        /\ \A m \in DOMAIN last.layers :
              LET L == last.layers[m]
                  k == last.pre.K[last.pre.S[L.bfgs].kron]
              IN  GradMatrix(heap, L) =
                      Mm(Mm(last.pre.T[k.B_inv], GradMatrix(last.pre, L)), last.pre.T[k.A_inv])

\* the references bfgs.kron.A and bfgs.kron.A_inv of a module (None when the
\* module has no bfgs matrix yet)
A_Of(h, L) ==
    IF L.bfgs = None THEN None
    ELSE IF h.S[L.bfgs].kron = None THEN None
    ELSE h.K[h.S[L.bfgs].kron].A

A_invOf(h, L) ==
    IF L.bfgs = None THEN None
    ELSE IF h.S[L.bfgs].kron = None THEN None
    ELSE h.K[h.S[L.bfgs].kron].A_inv

\* the step of update_preconditioner whose forward pass ran, without the
\* minibatch Hessian action
EstimateStep ==
    /\ pc = "main" /\ pc' # "main"
    /\ do_update_preconditioner(step)
    /\ ~ForwardFails(margs)
    /\ ~config.minibatch_hessian_action

\* H after one bfgsInverseUpdate with s = H * meanInput, y = A s + damping s
SecantUpdated(H, A, mean_in) ==
    ShermanMorrison(H, Mv(H, mean_in), VAddScaled(Mv(A, Mv(H, mean_in)), Mv(H, mean_in), get_damping))

\* the input-side inverse the estimate starts from: the one the module has,
\* or the damped Cholesky inverse of A when it has none
A_invInForce(h, L, A) ==
    IF A_invOf(h, L) # None THEN h.T[A_invOf(h, L)] ELSE cholesky_inv_damped(A, get_damping)

\* C19 (as stated in the specification): in every estimate phase, for every
\* eligible layer, A_inv is created by the damped Cholesky inversion only
\* when the phase finds it null; an A_inv that is there stays the same object
\* and is never re-inverted; and the phase changes it by exactly one
\* bfgsInverseUpdate with s = A_inv * meanInput, y = A s + damping s, computed
\* from the A_inv and the A in force before that update.
C19_AsStated_A_invBySecantUpdates ==
    [][EstimateStep =>
          \A m \in DOMAIN layers :
             /\ A_invOf(heap', layers'[m]) # None
             /\ A_invOf(heap, layers[m]) # None
                   => A_invOf(heap', layers'[m]) = A_invOf(heap, layers[m])
             /\ heap'.T[A_invOf(heap', layers'[m])] =
                   SecantUpdated(A_invInForce(heap, layers[m], heap'.T[A_Of(heap', layers'[m])]),
                                 heap'.T[A_Of(heap', layers'[m])],
                                 mean_in_data(layers[m], m, BatchOf(margs), step))]_vars

\* the part of C19 that the code does establish: an estimate phase never
\* replaces an A_inv object that is there, and an A_inv it creates is the
\* damped Cholesky inverse of A
C19_A_invCreatedOnce ==
    [][EstimateStep =>
          \A m \in DOMAIN layers :
             /\ A_invOf(heap, layers[m]) # None
                   => /\ A_invOf(heap', layers'[m]) = A_invOf(heap, layers[m])
                      /\ heap'.T[A_invOf(heap', layers'[m])] = heap.T[A_invOf(heap, layers[m])]
             /\ (A_invOf(heap, layers[m]) = None /\ A_invOf(heap', layers'[m]) # None)
                   => heap'.T[A_invOf(heap', layers'[m])] =
                         cholesky_inv_damped(heap'.T[A_Of(heap', layers'[m])], get_damping)]_vars

(***************************************************************************)
(* The apply phase on its own. An estimate phase of this code does not     *)
(* return for a model with eligible layers (bfgs_inv_update_ raises), so   *)
(* the driver above reaches _update_B_inv on empty models only. Here the   *)
(* maker starts as a returned estimate phase of step 0 leaves it: every    *)
(* module has its bfgs matrix with A, B and A_inv, with B_inv or without,  *)
(* the means and gradients of the estimate's batch, and the arguments of   *)
(* that batch are recorded. The steps that follow are those of the driver. *)
(***************************************************************************)
\* bfgs.kron.B_inv = None for every module's kron
ClearB_inv(h) == [h EXCEPT !.K = [k \in DOMAIN h.K |-> [h.K[k] EXCEPT !.B_inv = None]]]

\* the modules after the estimate phase of step 0 on batch b0
AfterEstimate(ls, b0, has_B_inv) ==
    LET w0 == AttachBfgs(Walk(EmptyHeap, ls, ""), 1)
        w1 == Walk(IF has_B_inv THEN w0.h ELSE ClearB_inv(w0.h),
                   store_mean(w0.layers, TRUE, b0, 0), "")
        w2 == backward(w1, 1, b0, 0)
    IN  Walk(w2.h, store_mean(w2.layers, FALSE, b0, 0), "")

InitApply ==
    /\ \E ls \in Models, b0 \in Batches, has_B_inv \in BOOLEAN :
          /\ heap = AfterEstimate(ls, b0, has_B_inv).h
          /\ layers = AfterEstimate(ls, b0, has_B_inv).layers
          /\ margs = [model_args |-> <<b0>>, model_kwargs |-> [y |-> b0],
                      last_model_args |-> <<b0>>, last_model_kwargs |-> [y |-> b0],
                      curr_model_args |-> <<>>, curr_model_kwargs |-> <<>>]
          /\ caller = b0
          /\ log = <<[kind |-> "estimate", step |-> 0, args |-> <<b0>>, kwargs |-> [y |-> b0],
                      supplied |-> b0, done |-> TRUE]>>
    /\ sched \in {f \in [0..(MaxStep - 1) -> BOOLEAN] : f[0]}
    /\ config \in [minibatch_hessian_action : BOOLEAN, cov_has_B : BOOLEAN]
    /\ A_inv_exists = TRUE
    /\ step = 1
    /\ pc = "ready"
    /\ nops = 0
    /\ reg = <<>>
    /\ last = [op |-> "init", err |-> "", pre |-> EmptyHeap, layers |-> <<>>]

SpecApply == InitApply /\ [][Next]_vars

\* the references bfgs.kron.B and bfgs.kron.B_inv of a module
B_Of(h, L) ==
    IF L.bfgs = None THEN None
    ELSE IF h.S[L.bfgs].kron = None THEN None
    ELSE h.K[h.S[L.bfgs].kron].B

B_invOf(h, L) ==
    IF L.bfgs = None THEN None
    ELSE IF h.S[L.bfgs].kron = None THEN None
    ELSE h.K[h.S[L.bfgs].kron].B_inv

\* the step of _startup that runs the apply phase on the recorded batch
ApplyStep ==
    /\ pc = "startup" /\ pc' # "startup"
    /\ step > 0 /\ do_update_preconditioner(step - 1)
    /\ margs.last_model_args # <<>>

\* the batch the apply phase re-runs
ApplyBatch == margs.last_model_args[1]

\* s and y of module m: the means of the re-run minus the stored means
ApplyS(L, m) == TSub(spatial_mean_out_data(L, m, ApplyBatch, step), L.mean_outputs[1])
ApplyY(L, m) == TSub(spatial_mean_out_grads(L, m, ApplyBatch, step), L.mean_outgrads[1])

\* B_inv before its update: the one the module has, the identity on first use
B_invInForce(h, L) == IF B_invOf(h, L) = None THEN Eye(L.out) ELSE h.T[B_invOf(h, L)]

\* H after powellDamping of the pair and one bfgsInverseUpdate
DampedUpdate(H, p) == ShermanMorrison(H, p.s, p.y)

B_invUpdated(H, s, y) == DampedUpdate(H, powell_lm_damping_(H, s, y, Cfg.mu1, get_damping))

\* what the apply phase leaves alone for module m: the stored means, the
\* factors A and B and A_inv, as objects and in value
ApplyFrame(m) ==
    /\ layers'[m].mean_outputs = layers[m].mean_outputs
    /\ layers'[m].mean_outgrads = layers[m].mean_outgrads
    /\ layers'[m].bfgs = layers[m].bfgs
    /\ A_Of(heap', layers'[m]) = A_Of(heap, layers[m])
    /\ B_Of(heap', layers'[m]) = B_Of(heap, layers[m])
    /\ A_invOf(heap', layers'[m]) = A_invOf(heap, layers[m])
    /\ heap'.T[A_Of(heap, layers[m])] = heap.T[A_Of(heap, layers[m])]
    /\ heap'.T[B_Of(heap, layers[m])] = heap.T[B_Of(heap, layers[m])]
    /\ heap'.T[A_invOf(heap, layers[m])] = heap.T[A_invOf(heap, layers[m])]

C20_ApplyFrameHolds ==
    [][ApplyStep =>
          \A m \in DOMAIN layers :
             /\ ApplyFrame(m)
             /\ (B_invOf(heap, layers[m]) = None /\ B_invOf(heap', layers'[m]) # None)
                   => heap'.T[B_invOf(heap', layers'[m])] = Eye(layers[m].out)
             /\ B_invOf(heap, layers[m]) # None
                   => /\ B_invOf(heap', layers'[m]) = B_invOf(heap, layers[m])
                      /\ heap'.T[B_invOf(heap', layers'[m])] = heap.T[B_invOf(heap, layers[m])]]_vars

\* every module has a bfgs matrix whose kron has A_inv
EveryA_inv(h, ls) == \A m \in DOMAIN ls : A_invOf(h, ls[m]) # None

\* the step of update_preconditioner whose forward pass ran: the estimate
\* phase has gone through its input-side update, _update_A_inv
InputSideStep ==
    /\ pc = "main" /\ pc' # "main"
    /\ do_update_preconditioner(step)
    /\ ~ForwardFails(margs)

C21_FlagImpliesInverses ==
    /\ A_inv_exists = FALSE
    /\ [][/\ A_inv_exists => A_inv_exists'
          /\ A_inv_exists' => EveryA_inv(heap', layers')]_vars

\* an estimate phase has run to its end
EstimateCompleted == \E i \in DOMAIN log : log[i].kind = "estimate" /\ log[i].done

\* every module has a bfgs matrix whose kron has A_inv and B_inv
EveryInverse(h, ls) ==
    \A m \in DOMAIN ls : A_invOf(h, ls[m]) # None /\ B_invOf(h, ls[m]) # None

\* what Kron.mvp raises on a missing inverse: None has no mm (B_inv), mm
\* does not take None (A_inv)
MissingInverseErrors == {"AttributeError", "TypeError"}

C22_A_invAfterEstimate == EstimateCompleted => EveryA_inv(heap, layers)

\* the values of both operands are what they were before the last operation
OperandsKept ==
    /\ Values(heap, reg.X) = Values(last.pre, reg.X)
    /\ Values(heap, reg.Y) = Values(last.pre, reg.Y)

\* the last operation was x.mul_(2) or x += y on the result R of an addition
OnResult == last.op \in {"mul", "iadd"} /\ reg.R # None /\ last.x = reg.R

\* C24 (as stated in the specification): X + Y never mutates its operands,
\* and its result shares no mutable sub-representation with them: a later
\* mul_ or += applied to the result leaves the values of X and Y unchanged,
\* also when only one of X, Y holds a given sub-representation.
C24_AsStated_AddResultIsFresh ==
    /\ last.op = "add" => OperandsKept
    /\ OnResult => OperandsKept

\* the part of C24 that the code does establish: X + Y itself leaves the
\* values of its operands as they are
C24_AddKeepsOperands == last.op = "add" => OperandsKept

(***************************************************************************)
(* bfgs_inv_update_ on arbitrary arguments: H symmetric or not, square or  *)
(* not, a matrix or a vector, and s and y of any length up to MaxDimH.     *)
(***************************************************************************)
\* the H of SecantH and three that break the precondition: a square matrix
\* that is not symmetric (for n > 1), an n x (n + 1) matrix and a vector
SecantAnyH(n) ==
    SecantH(n) \cup {Mat2(n, n, LAMBDA i, j : I(i + 2 * j)),
                     Mat2(n, n + 1, LAMBDA i, j : I(1)),
                     Vec([q \in 1..n |-> I(1)])}

InitSecantAny ==
    /\ \E n \in 1..MaxDimH, ns \in 1..MaxDimH, ny \in 1..MaxDimH :
          \E H \in SecantAnyH(n), s \in Vectors(ns), y \in Vectors(ny) :
             reg = [H |-> H, s |-> Vec(s), y |-> Vec(y), mu1 |-> Rat(1, 5), mu2 |-> Rat(1, 4)]
    /\ heap = EmptyHeap
    /\ nops = 0
    /\ pc = "secant"
    /\ last = [op |-> "init", err |-> "", pre |-> <<>>]
    /\ DrvIdle

SpecSecantAny == InitSecantAny /\ [][SecantUpdate]_vars

\* the precondition of bfgs_inv_update_: H a symmetric square matrix, s and
\* y vectors of its dimension
UpdatePrecondition(a) ==
    /\ IsSymmetric(a.H)
    /\ Len(a.s.shape) = 1 /\ a.s.shape[1] = a.H.shape[1]
    /\ Len(a.y.shape) = 1 /\ a.y.shape[1] = a.H.shape[1]

C23_InversesStaySymmetric ==
    \A m \in DOMAIN layers :
        /\ A_invOf(heap, layers[m]) # None => IsSymmetric(heap.T[A_invOf(heap, layers[m])])
        /\ B_invOf(heap, layers[m]) # None => IsSymmetric(heap.T[B_invOf(heap, layers[m])])

====
